---- MODULE Spec2Model ----
(***************************************************************************)
(* Verification model of ppk2-python: the SampleParser frame decoder       *)
(* (src/ppk2/parser.py), the PPK2Device session (src/ppk2/device.py) and   *)
(* the .ppk2 capture file (src/ppk2/ppk2file.py).                          *)
(*                                                                         *)
(* Representation notes.                                                   *)
(*  - Python None for an integer field is the integer -1 (None); the loss  *)
(*    marker None inside a result list is the empty tuple (LossMarker),    *)
(*    frames being 4-tuples <<adc_raw, range, counter, logic>>.            *)
(*  - bytes objects are sequences of integers 0..255.                      *)
(*  - the 32-bit frame word does not fit the checker's integers, so it is  *)
(*    kept as the pair of its low 24 bits and its top byte.                *)
(***************************************************************************)
EXTENDS Integers, Sequences, FiniteSets, TLC

VARIABLES
    parser,      \* SampleParser object: _remainder, _expected_counter, _dataloss_counter, _corrupted_buffer
    rx,          \* bytes produced by the instrument and not yet handed to feed()
    gen,         \* the frame source: next counter, frames produced so far
    sent,        \* history: frames produced since the decoder was last reset on a frame boundary
    fed_bytes,   \* history: bytes passed to feed() since the last reset
    out,         \* history: concatenation of the lists feed() returned since the last reset
    last_ret,    \* the list returned by the most recent feed()
    last_chunk,  \* the bytes passed to the most recent feed()
    aligned,     \* history: the last reset happened on a frame boundary of the stream
    nresets,     \* history: number of reset() calls made
    ppk,         \* PPK2Device object: _vdd_mv, _is_measuring, _metadata, _modifiers, _spike_filter, _parser
    port,        \* the transport and the instrument behind it: is_open, streaming
    meta_rx,     \* metadata text chunks the instrument has queued for read()
    io,          \* history: transport traffic of the running (or last) device call
    pc,          \* where the calling thread is: "idle", "measure", "wait", "connect"
    loc,         \* local variables of the running device call
    now,         \* time.monotonic() in ticks of 10 ms, counted from the entry of the running call
    last_op,     \* history: the last API call, its arguments and the exception it raised
    ret,         \* the value the last device call returned
    cap,         \* history: bytes read and items feed() returned during the running (or last) polling call
    ncalls,      \* history: number of device calls made
    result,      \* the MeasurementResult handed to save_ppk2
    archive,     \* the .ppk2 file on disk: session.raw, metadata.json, minimap.raw
    loaded,      \* the MeasurementResult load_ppk2 returned
    spike,       \* conversion driven on its own: a SpikeFilter object f, the Modifiers and the vdd_mv in use; history: reset() calls made
    spike_log,   \* history: input, converted value, value returned and filter before the call, of each process() call since the last reset()
    mapper,      \* EventMapper object: channel_map, _events
    original     \* history: the samples of the result as they were when apply() was last entered

parserVars == <<parser, rx, gen, sent, fed_bytes, out, last_ret, last_chunk, aligned, nresets>>

deviceVars == <<ppk, port, meta_rx, io, pc, loc, now, last_op, ret, cap, ncalls>>

fileVars == <<result, archive, loaded>>

spikeVars == <<spike, spike_log>>

eventVars == <<mapper, original>>

vars == <<parser, rx, gen, sent, fed_bytes, out, last_ret, last_chunk, aligned, nresets,
          ppk, port, meta_rx, io, pc, loc, now, last_op, ret, cap, ncalls,
          result, archive, loaded, spike, spike_log, mapper, original>>

-----------------------------------------------------------------------------
(* Bounds of the model *)

MaxFrames == 7      \* frames the source produces in one run
MaxPending == 8     \* bytes that may wait between the source and feed()
MaxResets == 1      \* reset() calls in one run of the decoder specification

-----------------------------------------------------------------------------
(* parser.py *)

None == -1
LossMarker == <<>>

FRAME_SIZE == 4
MAX_COUNTER == 63
DATALOSS_THRESHOLD == 500

\* SampleParser.__init__; errors_logged is history: the number of
\* "Significant data loss" errors the object has logged so far
NewParser ==
    [remainder |-> <<>>,
     expected_counter |-> None,
     dataloss_counter |-> 0,
     corrupted_buffer |-> <<>>,
     errors_logged |-> 0]

\* SampleParser.reset: the same four assignments as __init__
parser_reset_keeps_counter(p) ==
    [p EXCEPT !.remainder = <<>>,
              !.dataloss_counter = 0,
              !.corrupted_buffer = <<>>]

parser_reset(p) ==
    [p EXCEPT !.remainder = <<>>,
              !.expected_counter = None,
              !.dataloss_counter = 0,
              !.corrupted_buffer = <<>>]

\* mock.make_sample_frame: pack the four fields into 4 little-endian bytes
make_sample_frame(adc, range_idx, counter, logic) ==
    LET lo24 == (adc % 16384) + ((range_idx % 8) * 16384) + ((counter % 64) * 262144)
    IN  <<lo24 % 256, (lo24 \div 256) % 256, lo24 \div 65536, logic % 256>>

\* struct.unpack_from("<I", data, offset) and the four field extractions of feed
decode_frame_shifted(b) ==
    LET lo24 == b[1] + (256 * b[2]) + (65536 * b[3])
    IN  <<(lo24 % 16384) * 4, (lo24 \div 8192) % 8, (lo24 \div 262144) % 64, b[4]>>

decode_frame(b) ==
    LET lo24 == b[1] + (256 * b[2]) + (65536 * b[3])
    IN  <<(lo24 % 16384) * 4, (lo24 \div 16384) % 8, (lo24 \div 262144) % 64, b[4]>>

\* (self._expected_counter + 1) & MAX_COUNTER
NextCounterNarrow(c) == (c + 1) % 32

NextCounter(c) == (c + 1) % (MAX_COUNTER + 1)

\* SampleParser._report_dataloss that counts loss events instead of lost frames
report_dataloss_counts_events(p, missing) ==
    LET was_below == p.dataloss_counter < DATALOSS_THRESHOLD
        total == p.dataloss_counter + 1
    IN  [p EXCEPT !.dataloss_counter = total,
                  !.errors_logged = IF was_below /\ total >= DATALOSS_THRESHOLD
                                    THEN @ + 1 ELSE @]

\* SampleParser._report_dataloss
report_dataloss_relogs(p, missing) ==
    LET total == p.dataloss_counter + missing
    IN  [p EXCEPT !.dataloss_counter = total,
                  !.errors_logged = IF total >= DATALOSS_THRESHOLD THEN @ + 1 ELSE @]

report_dataloss(p, missing) ==
    LET was_below == p.dataloss_counter < DATALOSS_THRESHOLD
        total == p.dataloss_counter + missing
    IN  [p EXCEPT !.dataloss_counter = total,
                  !.errors_logged = IF was_below /\ total >= DATALOSS_THRESHOLD
                                    THEN @ + 1 ELSE @]

\* SampleParser._check_counter whose loss branch flushes the buffered frames
\* after the loss markers
check_counter_flushes_on_loss(p, sample) ==
    LET counter == sample[3]
        advance(q, res) ==
            [p |-> [q EXCEPT !.expected_counter = NextCounter(@)],
             results |-> Append(res, sample)]
    IN  IF p.expected_counter = None
        THEN advance([p EXCEPT !.expected_counter = counter], <<>>)
        ELSE IF p.corrupted_buffer # <<>> /\ counter = p.expected_counter
        THEN advance([p EXCEPT !.corrupted_buffer = <<>>], p.corrupted_buffer)
        ELSE IF Len(p.corrupted_buffer) > 4
        THEN LET missing == (counter - p.expected_counter + MAX_COUNTER + 1) % (MAX_COUNTER + 1)
                 q == report_dataloss(p, missing)
             IN  advance([q EXCEPT !.expected_counter = counter,
                                   !.corrupted_buffer = <<>>],
                         [i \in 1..missing |-> LossMarker] \o p.corrupted_buffer)
        ELSE IF p.expected_counter # counter
        THEN [p |-> [p EXCEPT !.corrupted_buffer = Append(@, sample),
                              !.expected_counter = NextCounter(@)],
              results |-> <<sample>>]
        ELSE advance(p, <<>>)

\* SampleParser._check_counter that drops the buffered frames when the
\* counter comes back into sequence
check_counter_drops_buffer(p, sample) ==
    LET counter == sample[3]
        advance(q, res) ==
            [p |-> [q EXCEPT !.expected_counter = NextCounter(@)],
             results |-> Append(res, sample)]
    IN  IF p.expected_counter = None
        THEN advance([p EXCEPT !.expected_counter = counter], <<>>)
        ELSE IF p.corrupted_buffer # <<>> /\ counter = p.expected_counter
        THEN advance([p EXCEPT !.corrupted_buffer = <<>>], <<>>)
        ELSE IF Len(p.corrupted_buffer) > 4
        THEN LET missing == (counter - p.expected_counter + MAX_COUNTER + 1) % (MAX_COUNTER + 1)
                 q == report_dataloss(p, missing)
             IN  advance([q EXCEPT !.expected_counter = counter,
                                   !.corrupted_buffer = <<>>],
                         [i \in 1..missing |-> LossMarker])
        ELSE IF p.expected_counter # counter
        THEN [p |-> [p EXCEPT !.corrupted_buffer = Append(@, sample),
                              !.expected_counter = NextCounter(@)],
              results |-> <<sample>>]
        ELSE advance(p, <<>>)

\* SampleParser._check_counter that follows a mismatching frame's counter at once
check_counter_jumps(p, sample) ==
    LET counter == sample[3]
        advance(q, res) ==
            [p |-> [q EXCEPT !.expected_counter = NextCounter(@)],
             results |-> Append(res, sample)]
    IN  IF p.expected_counter = None
        THEN advance([p EXCEPT !.expected_counter = counter], <<>>)
        ELSE IF p.corrupted_buffer # <<>> /\ counter = p.expected_counter
        THEN advance([p EXCEPT !.corrupted_buffer = <<>>], p.corrupted_buffer)
        ELSE IF Len(p.corrupted_buffer) > 4
        THEN LET missing == (counter - p.expected_counter + MAX_COUNTER + 1) % (MAX_COUNTER + 1)
                 q == report_dataloss(p, missing)
             IN  advance([q EXCEPT !.expected_counter = counter,
                                   !.corrupted_buffer = <<>>],
                         [i \in 1..missing |-> LossMarker])
        ELSE IF p.expected_counter # counter
        THEN [p |-> [p EXCEPT !.corrupted_buffer = Append(@, sample),
                              !.expected_counter = NextCounter(counter)],
              results |-> <<sample>>]
        ELSE advance(p, <<>>)

\* SampleParser._check_counter that holds a mismatching frame back until the
\* counter comes back into sequence
check_counter_holds_back(p, sample) ==
    LET counter == sample[3]
        advance(q, res) ==
            [p |-> [q EXCEPT !.expected_counter = NextCounter(@)],
             results |-> Append(res, sample)]
    IN  IF p.expected_counter = None
        THEN advance([p EXCEPT !.expected_counter = counter], <<>>)
        ELSE IF p.corrupted_buffer # <<>> /\ counter = p.expected_counter
        THEN advance([p EXCEPT !.corrupted_buffer = <<>>], p.corrupted_buffer)
        ELSE IF Len(p.corrupted_buffer) > 4
        THEN LET missing == (counter - p.expected_counter + MAX_COUNTER + 1) % (MAX_COUNTER + 1)
                 q == report_dataloss(p, missing)
             IN  advance([q EXCEPT !.expected_counter = counter,
                                   !.corrupted_buffer = <<>>],
                         [i \in 1..missing |-> LossMarker])
        ELSE IF p.expected_counter # counter
        THEN [p |-> [p EXCEPT !.corrupted_buffer = Append(@, sample),
                              !.expected_counter = NextCounter(@)],
              results |-> <<>>]
        ELSE advance(p, <<>>)

\* SampleParser._check_counter: the new object state and the returned list
check_counter(p, sample) ==
    LET counter == sample[3]
        advance(q, res) ==
            [p |-> [q EXCEPT !.expected_counter = NextCounter(@)],
             results |-> Append(res, sample)]
    IN  IF p.expected_counter = None
        THEN advance([p EXCEPT !.expected_counter = counter], <<>>)
        ELSE IF p.corrupted_buffer # <<>> /\ counter = p.expected_counter
        THEN advance([p EXCEPT !.corrupted_buffer = <<>>], p.corrupted_buffer)
        ELSE IF Len(p.corrupted_buffer) > 4
        THEN LET missing == (counter - p.expected_counter + MAX_COUNTER + 1) % (MAX_COUNTER + 1)
                 q == report_dataloss(p, missing)
             IN  advance([q EXCEPT !.expected_counter = counter,
                                   !.corrupted_buffer = <<>>],
                         [i \in 1..missing |-> LossMarker])
        ELSE IF p.expected_counter # counter
        THEN [p |-> [p EXCEPT !.corrupted_buffer = Append(@, sample),
                              !.expected_counter = NextCounter(@)],
              results |-> <<sample>>]
        ELSE advance(p, <<>>)

\* the while loop of SampleParser.feed over data = remainder + chunk
RECURSIVE feed_loop(_, _, _)
feed_loop(p, data, results) ==
    IF FRAME_SIZE <= Len(data)
    THEN LET r == check_counter(p, decode_frame(SubSeq(data, 1, FRAME_SIZE)))
         IN  feed_loop(r.p, SubSeq(data, FRAME_SIZE + 1, Len(data)), results \o r.results)
    ELSE [p |-> [p EXCEPT !.remainder = data], results |-> results]

\* SampleParser.feed
feed_drop_partial(p, data) ==
    LET r == feed_loop(p, p.remainder \o data, <<>>)
    IN  [r EXCEPT !.p.remainder = <<>>]

feed(p, data) == feed_loop(p, p.remainder \o data, <<>>)

-----------------------------------------------------------------------------
(* types.py, conversion.py                                                 *)
(* Floating-point quantities are held in fixed point: calibration          *)
(* coefficients r, gs, gi, s, i, ug in thousandths, o in ADC counts,       *)
(* currents in whole microamps, the smoothing rates in hundredths.         *)

\* Modifiers(): the default coefficient arrays, index 1..5 for ranges 0..4
DefaultModifiers ==
    [r  |-> <<1031640, 101650, 10150, 940, 43>>,
     gs |-> <<1000, 1000, 1000, 1000, 1000>>,
     gi |-> <<1000, 1000, 1000, 1000, 1000>>,
     o  |-> <<0, 0, 0, 0, 0>>,
     s  |-> <<0, 0, 0, 0, 0>>,
     i  |-> <<0, 0, 0, 0, 0>>,
     ug |-> <<1000, 1000, 1000, 1000, 1000>>]

\* a Python list index outside 0..4 of a 5-element list raises IndexError
IndexOk(idx) == idx \in 0..4

\* floor(a * b / 1000) without leaving the checker's integer range
MulDiv1000(a, b) == a * (b \div 1000) + (a * (b % 1000)) \div 1000

\* adc_to_microamps with the gain polynomial grouped as
\* no_gain * gs * no_gain + gi, the linear gain becoming a constant term
adc_to_microamps_misgrouped(adc_raw, range_idx, modifiers, vdd_mv) ==
    LET k == range_idx + 1
        no_gain == ((((adc_raw - modifiers.o[k]) * 5625) \div 512) * 1000) \div modifiers.r[k]
        q == no_gain \div 1000
        rm == no_gain % 1000
        square == q * q + (2 * q * rm) \div 1000
        quad == MulDiv1000(modifiers.gs[k], square)
        off == modifiers.s[k] * vdd_mv + modifiers.i[k] * 1000
    IN  MulDiv1000(modifiers.ug[k], quad + modifiers.gi[k] * 1000 + off)

\* adc_to_microamps for a valid range index; ADC_MULT * 1e6 = 5625 / 512,
\* no_gain is held in millionths and split as q * 1000 + rm for its square
adc_to_microamps(adc_raw, range_idx, modifiers, vdd_mv) ==
    LET k == range_idx + 1
        r == modifiers.r[k]
        gs == modifiers.gs[k]
        gi == modifiers.gi[k]
        o == modifiers.o[k]
        s == modifiers.s[k]
        i == modifiers.i[k]
        ug == modifiers.ug[k]
        no_gain == ((((adc_raw - o) * 5625) \div 512) * 1000) \div r
        q == no_gain \div 1000
        rm == no_gain % 1000
        square == q * q + (2 * q * rm) \div 1000
        quad == MulDiv1000(gs, square)
        lin == MulDiv1000(gi, no_gain)
        off == s * vdd_mv + i * 1000
    IN  MulDiv1000(ug, quad + lin + off)

ALPHA == 18
ALPHA5 == 6
FILTER_SAMPLES == 3

\* alpha * value + (1 - alpha) * avg for alpha in hundredths, rounded down:
\* floor((a * value + (100 - a) * avg) / 100) within the checker's integers
Ema(a, value, avg) ==
    a * (value \div 100) + (100 - a) * (avg \div 100)
        + (a * (value % 100) + (100 - a) * (avg % 100)) \div 100

\* SpikeFilter.__init__ with the default arguments
NewSpikeFilter ==
    [rolling_avg |-> None,
     rolling_avg4 |-> None,
     prev_range |-> None,
     after_spike |-> 0,
     consecutive_range_sample |-> 0]

\* SpikeFilter.reset that keeps the two moving averages
spike_reset_keeps_averages(f) ==
    [f EXCEPT !.prev_range = None,
              !.after_spike = 0,
              !.consecutive_range_sample = 0]

\* SpikeFilter.reset
spike_reset(f) ==
    [f EXCEPT !.rolling_avg = None,
              !.rolling_avg4 = None,
              !.prev_range = None,
              !.after_spike = 0,
              !.consecutive_range_sample = 0]

\* SpikeFilter.process that returns the fast average on a stable range too
spike_process_smooth_all(f, value, range_idx) ==
    LET f1 == IF f.rolling_avg = None
              THEN [f EXCEPT !.rolling_avg = value, !.rolling_avg4 = value]
              ELSE [f EXCEPT !.rolling_avg = Ema(ALPHA, value, @),
                             !.rolling_avg4 = Ema(ALPHA5, value, @)]
    IN  [f |-> [f1 EXCEPT !.prev_range = range_idx], value |-> f1.rolling_avg]

\* SpikeFilter.process that does not count the call of the range change itself
spike_process_uncounted_change(f, value, range_idx) ==
    LET prev_avg == f.rolling_avg
        prev_avg4 == f.rolling_avg4
        f1 == IF f.rolling_avg = None
              THEN [f EXCEPT !.rolling_avg = value, !.rolling_avg4 = value]
              ELSE [f EXCEPT !.rolling_avg = Ema(ALPHA, value, @),
                             !.rolling_avg4 = Ema(ALPHA5, value, @)]
        f2 == IF f1.prev_range = None THEN [f1 EXCEPT !.prev_range = range_idx] ELSE f1
    IN  IF f2.prev_range # range_idx \/ f2.after_spike > 0
        THEN LET f3 == IF f2.prev_range # range_idx
                       THEN [f2 EXCEPT !.consecutive_range_sample = 0,
                                       !.after_spike = FILTER_SAMPLES + 1]
                       ELSE [f2 EXCEPT !.consecutive_range_sample = @ + 1]
                 f4 == IF range_idx = 4 /\ f3.consecutive_range_sample < 2
                       THEN [f3 EXCEPT !.rolling_avg4 = prev_avg4, !.rolling_avg = prev_avg]
                       ELSE f3
                 v == IF range_idx = 4 THEN f4.rolling_avg4 ELSE f4.rolling_avg
             IN  [f |-> [f4 EXCEPT !.after_spike = @ - 1, !.prev_range = range_idx],
                  value |-> v]
        ELSE [f |-> [f2 EXCEPT !.prev_range = range_idx], value |-> value]

\* SpikeFilter.process that restores only the slow average on range 4
spike_process_restores_slow_only(f, value, range_idx) ==
    LET prev_avg4 == f.rolling_avg4
        f1 == IF f.rolling_avg = None
              THEN [f EXCEPT !.rolling_avg = value, !.rolling_avg4 = value]
              ELSE [f EXCEPT !.rolling_avg = Ema(ALPHA, value, @),
                             !.rolling_avg4 = Ema(ALPHA5, value, @)]
        f2 == IF f1.prev_range = None THEN [f1 EXCEPT !.prev_range = range_idx] ELSE f1
    IN  IF f2.prev_range # range_idx \/ f2.after_spike > 0
        THEN LET f3 == IF f2.prev_range # range_idx
                       THEN [f2 EXCEPT !.consecutive_range_sample = 0,
                                       !.after_spike = FILTER_SAMPLES]
                       ELSE [f2 EXCEPT !.consecutive_range_sample = @ + 1]
                 f4 == IF range_idx = 4 /\ f3.consecutive_range_sample < 2
                       THEN [f3 EXCEPT !.rolling_avg4 = prev_avg4]
                       ELSE f3
                 v == IF range_idx = 4 THEN f4.rolling_avg4 ELSE f4.rolling_avg
             IN  [f |-> [f4 EXCEPT !.after_spike = @ - 1, !.prev_range = range_idx],
                  value |-> v]
        ELSE [f |-> [f2 EXCEPT !.prev_range = range_idx], value |-> value]

\* SpikeFilter.process that leaves an unset prev_range unset before the
\* range comparison
spike_process_unseeded_range(f, value, range_idx) ==
    LET prev_avg == f.rolling_avg
        prev_avg4 == f.rolling_avg4
        f2 == IF f.rolling_avg = None
              THEN [f EXCEPT !.rolling_avg = value, !.rolling_avg4 = value]
              ELSE [f EXCEPT !.rolling_avg = Ema(ALPHA, value, @),
                             !.rolling_avg4 = Ema(ALPHA5, value, @)]
    IN  IF f2.prev_range # range_idx \/ f2.after_spike > 0
        THEN LET f3 == IF f2.prev_range # range_idx
                       THEN [f2 EXCEPT !.consecutive_range_sample = 0,
                                       !.after_spike = FILTER_SAMPLES]
                       ELSE [f2 EXCEPT !.consecutive_range_sample = @ + 1]
                 f4 == IF range_idx = 4 /\ f3.consecutive_range_sample < 2
                       THEN [f3 EXCEPT !.rolling_avg4 = prev_avg4, !.rolling_avg = prev_avg]
                       ELSE f3
                 v == IF range_idx = 4 THEN f4.rolling_avg4 ELSE f4.rolling_avg
             IN  [f |-> [f4 EXCEPT !.after_spike = @ - 1, !.prev_range = range_idx],
                  value |-> v]
        ELSE [f |-> [f2 EXCEPT !.prev_range = range_idx], value |-> value]

\* SpikeFilter.process: the new filter state and the returned value
spike_process(f, value, range_idx) ==
    LET prev_avg == f.rolling_avg
        prev_avg4 == f.rolling_avg4
        f1 == IF f.rolling_avg = None
              THEN [f EXCEPT !.rolling_avg = value, !.rolling_avg4 = value]
              ELSE [f EXCEPT !.rolling_avg = Ema(ALPHA, value, @),
                             !.rolling_avg4 = Ema(ALPHA5, value, @)]
        f2 == IF f1.prev_range = None THEN [f1 EXCEPT !.prev_range = range_idx] ELSE f1
    IN  IF f2.prev_range # range_idx \/ f2.after_spike > 0
        THEN LET f3 == IF f2.prev_range # range_idx
                       THEN [f2 EXCEPT !.consecutive_range_sample = 0,
                                       !.after_spike = FILTER_SAMPLES]
                       ELSE [f2 EXCEPT !.consecutive_range_sample = @ + 1]
                 f4 == IF range_idx = 4 /\ f3.consecutive_range_sample < 2
                       THEN [f3 EXCEPT !.rolling_avg4 = prev_avg4, !.rolling_avg = prev_avg]
                       ELSE f3
                 v == IF range_idx = 4 THEN f4.rolling_avg4 ELSE f4.rolling_avg
             IN  [f |-> [f4 EXCEPT !.after_spike = @ - 1, !.prev_range = range_idx],
                  value |-> v]
        ELSE [f |-> [f2 EXCEPT !.prev_range = range_idx], value |-> value]

-----------------------------------------------------------------------------
(* commands.py: a command is the tuple of its bytes; the float32 payload of *)
(* set_user_gains is one cell holding the gain in thousandths              *)

AVERAGE_START == 6
AVERAGE_STOP == 7
DEVICE_RUNNING_SET == 12
REGULATOR_SET == 13
SET_POWER_MODE == 17
GET_METADATA == 25
SET_USER_GAINS == 37

average_start == <<AVERAGE_START>>
average_stop == <<AVERAGE_STOP>>
device_running_set(on) == <<DEVICE_RUNNING_SET, IF on THEN 1 ELSE 0>>
regulator_set(vdd_mv) == <<REGULATOR_SET, vdd_mv \div 256, vdd_mv % 256>>
set_power_mode(source_meter) == <<SET_POWER_MODE, IF source_meter THEN 2 ELSE 1>>
get_metadata == <<GET_METADATA>>
set_user_gains(range_idx, gain) == <<SET_USER_GAINS, range_idx, gain>>

-----------------------------------------------------------------------------
(* device.py: PPK2Device over a Transport.                                 *)
(* The operators below take and return a machine record m:                 *)
(*   m.ppk   the PPK2Device object,  m.port  the transport and instrument, *)
(*   m.io    the transport traffic of the running call (history),          *)
(*   m.err   the exception raised so far ("none" while there is none).     *)
(* Once m.err is set the remaining statements of the call are skipped.     *)

VDD_MIN == 800
VDD_MAX == 5000

EV_READ == <<0>>            \* a read of the transport
EV_RESET_FILTER == <<-1>>   \* SpikeFilter.reset()
EV_RESET_PARSER == <<-2>>   \* SampleParser.reset()

NoMetadata == [present |-> FALSE, vdd |-> None, ug |-> <<None, None, None, None, None>>]

\* PPK2Device.__init__
NewDevice ==
    [vdd_mv |-> 3700,
     is_measuring |-> FALSE,
     metadata |-> NoMetadata,
     modifiers |-> DefaultModifiers,
     spike_filter |-> NewSpikeFilter,
     parser |-> NewParser]

Raise(m, e) == IF m.err = "none" THEN [m EXCEPT !.err = e] ELSE m

\* record a transport read in the traffic history (runs of reads count once)
NoteRead(t) == IF t # <<>> /\ t[Len(t)] = EV_READ THEN t ELSE Append(t, EV_READ)

\* Transport.write as the instrument sees it: start/stop switch streaming
transport_write(m, cmd) ==
    IF ~m.port.is_open
    THEN Raise(m, "ConnectionError")
    ELSE [m EXCEPT !.io = Append(@, cmd),
                   !.port.streaming = IF cmd[1] = AVERAGE_START THEN TRUE
                                      ELSE IF cmd[1] = AVERAGE_STOP THEN FALSE
                                      ELSE @]

\* PPK2Device._send
send(m, cmd) == IF m.err = "none" THEN transport_write(m, cmd) ELSE m

\* PPK2Device.use_source_meter / use_ampere_meter
use_power_mode(m, source_meter) == send(m, set_power_mode(source_meter))

\* PPK2Device.set_source_voltage
set_source_voltage_unchecked(m, vdd_mv) ==
    send([m EXCEPT !.ppk.vdd_mv = vdd_mv], regulator_set(vdd_mv))

set_source_voltage(m, vdd_mv) ==
    IF ~(VDD_MIN <= vdd_mv /\ vdd_mv <= VDD_MAX)
    THEN Raise(m, "ValueError")
    ELSE send([m EXCEPT !.ppk.vdd_mv = vdd_mv], regulator_set(vdd_mv))

\* PPK2Device.toggle_dut_power
toggle_dut_power(m, on) == send(m, device_running_set(on))

\* PPK2Device.set_user_gain
set_user_gain(m, range_idx, gain) ==
    IF ~(0 <= range_idx /\ range_idx <= 4)
    THEN Raise(m, "ValueError")
    ELSE send([m EXCEPT !.ppk.modifiers.ug[range_idx + 1] = gain],
              set_user_gains(range_idx, gain))

\* PPK2Device.start_measuring
start_measuring_no_reset(m) ==
    LET m2 == send(m, average_start)
    IN  IF m2.err = "none" THEN [m2 EXCEPT !.ppk.is_measuring = TRUE] ELSE m2

start_measuring(m) ==
    LET m1 == [m EXCEPT !.ppk.spike_filter = spike_reset(@),
                        !.ppk.parser = parser_reset(@),
                        !.io = @ \o <<EV_RESET_FILTER, EV_RESET_PARSER>>]
        m2 == send(m1, average_start)
    IN  IF m2.err = "none" THEN [m2 EXCEPT !.ppk.is_measuring = TRUE] ELSE m2

\* PPK2Device.stop_measuring
stop_measuring(m) ==
    LET m1 == send(m, average_stop)
    IN  IF m1.err = "none" THEN [m1 EXCEPT !.ppk.is_measuring = FALSE] ELSE m1

\* PPK2Device.close
close_powers_off(m) ==
    LET m1 == IF m.ppk.is_measuring THEN stop_measuring(m) ELSE m
        m2 == send(m1, device_running_set(FALSE))
    IN  IF m2.err = "none" /\ m2.port.is_open
        THEN [m2 EXCEPT !.port.is_open = FALSE]
        ELSE m2

close_always_stops(m) ==
    LET m1 == stop_measuring(m)
    IN  IF m1.err = "none" /\ m1.port.is_open
        THEN [m1 EXCEPT !.port.is_open = FALSE]
        ELSE m1

close_before_stop(m) ==
    LET m1 == IF m.port.is_open THEN [m EXCEPT !.port.is_open = FALSE] ELSE m
    IN  IF m1.ppk.is_measuring THEN stop_measuring(m1) ELSE m1

close(m) ==
    LET m1 == IF m.ppk.is_measuring THEN stop_measuring(m) ELSE m
    IN  IF m1.err = "none" /\ m1.port.is_open
        THEN [m1 EXCEPT !.port.is_open = FALSE]
        ELSE m1

\* while time.monotonic() < deadline, of measure and of wait_for_digital
before_deadline_sliding(t, deadline) == TRUE

before_deadline(t, deadline) == t < deadline

\* the for loop of measure over the list feed() returned: frames are
\* converted, optionally smoothed and appended; a range index the
\* coefficient lists do not have raises IndexError out of the loop
RECURSIVE measure_frames_uncounted(_, _, _)
measure_frames_uncounted(m, lv, parsed) ==
    IF parsed = <<>> \/ m.err # "none"
    THEN [m |-> m, loc |-> lv]
    ELSE LET frame == Head(parsed)
         IN  IF frame = LossMarker
             THEN measure_frames_uncounted(m, lv, Tail(parsed))
             ELSE IF ~IndexOk(frame[2])
             THEN [m |-> Raise(m, "IndexError"), loc |-> lv]
             ELSE LET current == adc_to_microamps(frame[1], frame[2], m.ppk.modifiers, m.ppk.vdd_mv)
                      sp == spike_process(m.ppk.spike_filter, current, frame[2])
                      m1 == IF lv.spike THEN [m EXCEPT !.ppk.spike_filter = sp.f] ELSE m
                      sample == [current_ua |-> IF lv.spike THEN sp.value ELSE current,
                                 range |-> frame[2],
                                 logic |-> frame[4],
                                 counter |-> frame[3]]
                  IN  measure_frames_uncounted(m1, [lv EXCEPT !.samples = Append(@, sample)], Tail(parsed))

RECURSIVE measure_frames(_, _, _)
measure_frames(m, lv, parsed) ==
    IF parsed = <<>> \/ m.err # "none"
    THEN [m |-> m, loc |-> lv]
    ELSE LET frame == Head(parsed)
         IN  IF frame = LossMarker
             THEN measure_frames(m, [lv EXCEPT !.lost = @ + 1], Tail(parsed))
             ELSE IF ~IndexOk(frame[2])
             THEN [m |-> Raise(m, "IndexError"), loc |-> lv]
             ELSE LET current == adc_to_microamps(frame[1], frame[2], m.ppk.modifiers, m.ppk.vdd_mv)
                      sp == spike_process(m.ppk.spike_filter, current, frame[2])
                      m1 == IF lv.spike THEN [m EXCEPT !.ppk.spike_filter = sp.f] ELSE m
                      sample == [current_ua |-> IF lv.spike THEN sp.value ELSE current,
                                 range |-> frame[2],
                                 logic |-> frame[4],
                                 counter |-> frame[3]]
                  IN  measure_frames(m1, [lv EXCEPT !.samples = Append(@, sample)], Tail(parsed))

\* the for loop of wait_for_digital: TRUE when some frame has the pin at level
RECURSIVE wait_frames_high_only(_, _, _)
wait_frames_high_only(parsed, mask, level) ==
    IF parsed = <<>> THEN FALSE
    ELSE LET frame == Head(parsed)
         IN  IF frame = LossMarker THEN wait_frames_high_only(Tail(parsed), mask, level)
             ELSE IF ((frame[4] \div mask) % 2) = 1 THEN TRUE
             ELSE wait_frames_high_only(Tail(parsed), mask, level)

RECURSIVE wait_frames(_, _, _)
wait_frames(parsed, mask, level) ==
    IF parsed = <<>> THEN FALSE
    ELSE LET frame == Head(parsed)
         IN  IF frame = LossMarker THEN wait_frames(Tail(parsed), mask, level)
             ELSE IF (((frame[4] \div mask) % 2) = 1) = level THEN TRUE
             ELSE wait_frames(Tail(parsed), mask, level)

-----------------------------------------------------------------------------
(* The decoder on its own: a frame source, feed() on arbitrary chunks, reset() *)

StartCounters == {0, 62, 63}
Deltas == {1, 2}
SourceAdc == 1000
SourceRange == 2

\* the tuple the decoder is expected to emit for a produced frame
FrameTuple(f) == <<f.adc * 4, f.range, f.counter, f.logic>>

\* no device call has been made: PPK2Device(transport) just constructed
NoLoc ==
    [deadline |-> 0, duration |-> 0, samples |-> <<>>, lost |-> 0, spike |-> FALSE,
     mask |-> 0, level |-> FALSE, text |-> NoMetadata]

NoRet == [kind |-> "none"]

NoCap == [bytes |-> 0, frames |-> 0, markers |-> 0]

\* no MeasurementResult / no file yet
NoResult == [kind |-> "none"]

NoArchive == [exists |-> FALSE]

InitDeviceVars ==
    /\ ppk = NewDevice
    /\ port = [is_open |-> FALSE, streaming |-> FALSE]
    /\ meta_rx = <<>>
    /\ io = <<>>
    /\ pc = "idle"
    /\ loc = NoLoc
    /\ now = 0
    /\ last_op = [op |-> "init", arg |-> <<>>, err |-> "none"]
    /\ ret = NoRet
    /\ cap = NoCap
    /\ ncalls = 0

InitSpikeVars ==
    /\ spike = [f |-> NewSpikeFilter, modifiers |-> DefaultModifiers, vdd_mv |-> 3700, resets |-> 0]
    /\ spike_log = <<>>

\* the channel_map the mapper is built with: event name to channel number
ChannelMap == [GPS |-> 0, LTE_TX |-> 2]

\* EventMapper(channel_map): no event recorded yet
InitEventVars ==
    /\ mapper = [channel_map |-> ChannelMap, events |-> <<>>]
    /\ original = <<>>

InitFileVars ==
    /\ result = NoResult
    /\ archive = NoArchive
    /\ loaded = NoResult
    /\ InitSpikeVars
    /\ InitEventVars

InitParser ==
    /\ InitDeviceVars
    /\ InitFileVars
    /\ parser = NewParser
    /\ rx = <<>>
    /\ \E c \in StartCounters : gen = [counter |-> c, n |-> 0, drops |-> 0, odd |-> 0]
    /\ sent = <<>>
    /\ fed_bytes = <<>>
    /\ out = <<>>
    /\ last_ret = <<>>
    /\ last_chunk = <<>>
    /\ aligned = TRUE
    /\ nresets = 0

\* the instrument emits its next frame; delta - 1 frames were dropped before it
Produce(delta) ==
    /\ gen.n < MaxFrames
    /\ Len(rx) + FRAME_SIZE <= MaxPending
    /\ LET c == IF gen.n = 0 THEN gen.counter ELSE (gen.counter + delta) % 64
           f == [adc |-> SourceAdc, range |-> SourceRange, counter |-> c, logic |-> gen.n + 1]
       IN  /\ rx' = rx \o make_sample_frame(f.adc, f.range, f.counter, f.logic)
           /\ gen' = [gen EXCEPT !.counter = c, !.n = gen.n + 1]
           /\ sent' = Append(sent, f)
    /\ UNCHANGED <<parser, fed_bytes, out, last_ret, last_chunk, aligned, nresets>>
    /\ UNCHANGED deviceVars
    /\ UNCHANGED fileVars
    /\ UNCHANGED spikeVars
    /\ UNCHANGED eventVars

\* parser.feed(chunk) with the first k waiting bytes
ParserFeed(k) ==
    /\ k <= Len(rx)
    /\ LET chunk == SubSeq(rx, 1, k)
           r == feed(parser, chunk)
       IN  /\ parser' = r.p
           /\ last_ret' = r.results
           /\ last_chunk' = chunk
           /\ out' = out \o r.results
           /\ fed_bytes' = fed_bytes \o chunk
           /\ rx' = SubSeq(rx, k + 1, Len(rx))
    /\ UNCHANGED <<gen, sent, aligned, nresets>>
    /\ UNCHANGED deviceVars
    /\ UNCHANGED fileVars
    /\ UNCHANGED spikeVars
    /\ UNCHANGED eventVars

\* parser.reset()
ParserReset ==
    /\ nresets < MaxResets
    /\ parser' = parser_reset(parser)
    /\ nresets' = nresets + 1
    /\ fed_bytes' = <<>>
    /\ out' = <<>>
    /\ last_ret' = <<>>
    /\ last_chunk' = <<>>
    /\ aligned' = (aligned /\ Len(fed_bytes) % FRAME_SIZE = 0)
    /\ sent' = SubSeq(sent, Len(sent) - (Len(rx) \div FRAME_SIZE) + 1, Len(sent))
    /\ UNCHANGED <<rx, gen>>
    /\ UNCHANGED deviceVars
    /\ UNCHANGED fileVars
    /\ UNCHANGED spikeVars
    /\ UNCHANGED eventVars

NextParser ==
    \/ \E d \in Deltas : Produce(d)
    \/ \E k \in 0..MaxPending : ParserFeed(k)
    \/ ParserReset

SpecParser == InitParser /\ [][NextParser]_vars

\* Modifiers.update_from_metadata (the model's metadata carries the ug keys)
update_from_metadata(modifiers, meta) ==
    [modifiers EXCEPT !.ug = [k \in 1..5 |-> IF meta.ug[k] # None THEN meta.ug[k] ELSE @[k]]]

\* PPK2Device._validate_gains, from range index idx on
RECURSIVE validate_gains_strict(_, _)
validate_gains_strict(m, idx) ==
    IF idx > 4 \/ m.err # "none"
    THEN m
    ELSE LET gain == m.ppk.modifiers.ug[idx + 1]
         IN  validate_gains_strict(IF gain <= 900 \/ gain >= 1100
                                   THEN set_user_gain(m, idx, 1000)
                                   ELSE m,
                                   idx + 1)

RECURSIVE validate_gains(_, _)
validate_gains(m, idx) ==
    IF idx > 4 \/ m.err # "none"
    THEN m
    ELSE LET gain == m.ppk.modifiers.ug[idx + 1]
         IN  validate_gains(IF gain < 900 \/ gain > 1100
                            THEN set_user_gain(m, idx, 1000)
                            ELSE m,
                            idx + 1)

\* text += chunk.decode(...): keys seen so far, and whether END has been seen
append_text_forgets(text, chunk) ==
    [present |-> chunk.end, vdd |-> chunk.vdd, ug |-> chunk.ug]

append_text(text, chunk) ==
    [present |-> text.present \/ chunk.end,
     vdd |-> IF chunk.vdd # None THEN chunk.vdd ELSE text.vdd,
     ug |-> [k \in 1..5 |-> IF chunk.ug[k] # None THEN chunk.ug[k] ELSE text.ug[k]]]

\* _connect after _read_metadata has returned the parsed metadata
connect_finish_keeps_vdd(m, meta) ==
    LET m1 == [m EXCEPT !.ppk.metadata = meta,
                        !.ppk.modifiers = update_from_metadata(@, meta)]
    IN  validate_gains(send(m1, regulator_set(m1.ppk.vdd_mv)), 0)

connect_finish(m, meta) ==
    LET vdd == IF meta.vdd # None THEN meta.vdd ELSE 3700
        m1 == [m EXCEPT !.ppk.metadata = meta,
                        !.ppk.modifiers = update_from_metadata(@, meta),
                        !.ppk.vdd_mv = vdd]
    IN  validate_gains(send(m1, regulator_set(vdd)), 0)

-----------------------------------------------------------------------------
(* The device session: calls of the PPK2Device API by one thread, the      *)
(* instrument streaming frames, and the clock.                             *)

MaxCalls == 5       \* device calls in one run
MaxDeviceFrames == 7 \* frames the instrument streams in one run
MaxDrops == 1       \* gaps in the streamed counter sequence in one run
MaxOddFrames == 1   \* streamed frames whose range field is not the instrument's usual one

SLEEP_STABILISE == 5     \* time.sleep(0.05) in measure
SLEEP_IDLE == 1          \* time.sleep(0.01) after an empty poll
SLEEP_DRAIN == 10        \* time.sleep(0.1) in _connect
METADATA_WINDOW == 500   \* the 5.0 s deadline of _read_metadata
READ_TIMEOUT == 100      \* read(1024, timeout=1.0)

Voltages == {799, 3300, 5001}
GainIndexes == {-1, 1, 5}
Gains == {1200}
Channels == {-1, 0, 8}
WaitTimeouts == {1}
DeviceRanges == {2, 5}

\* the byte counts a poll may find arrived: nothing, half a frame, everything
PollSizes == {0, 2} \cup {MaxPending}

Arrived(k) == IF k > Len(rx) THEN Len(rx) ELSE k

FullGains == <<1000, 1000, 1000, 1000, 1000>>
NoGains == <<None, None, None, None, None>>

\* what the instrument may answer to a metadata request: everything in one
\* chunk, the same with a VDD above the regulator's range, the text split in
\* two chunks (with two gains out of band and two on the edges of the band),
\* text that never reaches END, nothing
MetaResponses ==
    { <<[vdd |-> 3300, ug |-> FullGains, end |-> TRUE]>>,
      <<[vdd |-> 6000, ug |-> FullGains, end |-> TRUE]>>,
      <<[vdd |-> 4200, ug |-> <<1200, 900, 1100, 1000, 800>>, end |-> FALSE],
        [vdd |-> None, ug |-> NoGains, end |-> TRUE]>>,
      <<[vdd |-> 4200, ug |-> <<1200, 900, 1100, 1000, 800>>, end |-> FALSE]>>,
      <<>> }

\* captures are run on an instrument that answers in one chunk with a VDD
\* the regulator accepts
CaptureResponses ==
    {r \in MetaResponses : Len(r) = 1 /\ r[1].end /\ r[1].vdd \in VDD_MIN..VDD_MAX}
CaptureChannels == {1}
MeasureArgs == {<<0, TRUE>>, <<1, TRUE>>, <<1, FALSE>>}

Machine == [ppk |-> ppk, port |-> port, io |-> <<>>, err |-> "none"]

\* a call that runs to its end in one step
Finish(m, op, arg) ==
    /\ ppk' = m.ppk
    /\ port' = m.port
    /\ io' = m.io
    /\ last_op' = [op |-> op, arg |-> arg, err |-> m.err]
    /\ pc' = "idle"
    /\ ncalls' = ncalls + 1

CanCall == pc = "idle" /\ ncalls < MaxCalls

\* the decoder-side variables of a run that does not use the bare decoder
InitParserVars ==
    /\ parser = NewParser
    /\ rx = <<>>
    /\ gen = [counter |-> 0, n |-> 0, drops |-> 0, odd |-> 0]
    /\ sent = <<>>
    /\ fed_bytes = <<>>
    /\ out = <<>>
    /\ last_ret = <<>>
    /\ last_chunk = <<>>
    /\ aligned = TRUE
    /\ nresets = 0

InitDevice ==
    /\ InitDeviceVars
    /\ InitFileVars
    /\ InitParserVars

UsePowerMode(source_meter) ==
    /\ CanCall
    /\ Finish(use_power_mode(Machine, source_meter), "use_power_mode", <<source_meter>>)
    /\ UNCHANGED <<meta_rx, loc, now, ret, cap, parserVars>>
    /\ UNCHANGED fileVars
    /\ UNCHANGED spikeVars
    /\ UNCHANGED eventVars

SetSourceVoltage(vdd_mv) ==
    /\ CanCall
    /\ Finish(set_source_voltage(Machine, vdd_mv), "set_source_voltage", <<vdd_mv>>)
    /\ UNCHANGED <<meta_rx, loc, now, ret, cap, parserVars>>
    /\ UNCHANGED fileVars
    /\ UNCHANGED spikeVars
    /\ UNCHANGED eventVars

ToggleDutPower(on) ==
    /\ CanCall
    /\ Finish(toggle_dut_power(Machine, on), "toggle_dut_power", <<on>>)
    /\ UNCHANGED <<meta_rx, loc, now, ret, cap, parserVars>>
    /\ UNCHANGED fileVars
    /\ UNCHANGED spikeVars
    /\ UNCHANGED eventVars

SetUserGain(range_idx, gain) ==
    /\ CanCall
    /\ Finish(set_user_gain(Machine, range_idx, gain), "set_user_gain", <<range_idx, gain>>)
    /\ UNCHANGED <<meta_rx, loc, now, ret, cap, parserVars>>
    /\ UNCHANGED fileVars
    /\ UNCHANGED spikeVars
    /\ UNCHANGED eventVars

StartMeasuring ==
    /\ CanCall
    /\ Finish(start_measuring(Machine), "start_measuring", <<>>)
    /\ UNCHANGED <<meta_rx, loc, now, ret, cap, parserVars>>
    /\ UNCHANGED fileVars
    /\ UNCHANGED spikeVars
    /\ UNCHANGED eventVars

StopMeasuring ==
    /\ CanCall
    /\ Finish(stop_measuring(Machine), "stop_measuring", <<>>)
    /\ UNCHANGED <<meta_rx, loc, now, ret, cap, parserVars>>
    /\ UNCHANGED fileVars
    /\ UNCHANGED spikeVars
    /\ UNCHANGED eventVars

Close ==
    /\ CanCall
    /\ Finish(close(Machine), "close", <<>>)
    /\ UNCHANGED <<meta_rx, loc, now, ret, cap, parserVars>>
    /\ UNCHANGED fileVars
    /\ UNCHANGED spikeVars
    /\ UNCHANGED eventVars

\* Transport.read_available: raises when the port is not open or when the
\* serial link fails under it, else returns the bytes that have arrived
read_available(m, link_fails) ==
    IF ~m.port.is_open THEN Raise(m, "ConnectionError")
    ELSE IF link_fails THEN Raise(m, "SerialException")
    ELSE [m EXCEPT !.io = NoteRead(@)]

\* measure(): start_measuring, the settling sleep, the deadline
MeasureBegin(duration_s, spike_filter) ==
    /\ CanCall
    /\ LET m == start_measuring(Machine)
       IN  /\ ppk' = m.ppk
           /\ port' = m.port
           /\ io' = m.io
           /\ last_op' = [op |-> "measure", arg |-> <<duration_s, spike_filter>>, err |-> m.err]
           /\ ncalls' = ncalls + 1
           /\ IF m.err = "none"
              THEN /\ pc' = "measure"
                   /\ now' = SLEEP_STABILISE
                   /\ loc' = [NoLoc EXCEPT !.deadline = SLEEP_STABILISE + duration_s,
                                           !.duration = duration_s,
                                           !.spike = spike_filter]
              ELSE /\ pc' = "idle"
                   /\ UNCHANGED <<now, loc>>
    /\ ret' = NoRet
    /\ cap' = NoCap
    /\ UNCHANGED <<meta_rx, parserVars>>
    /\ UNCHANGED fileVars
    /\ UNCHANGED spikeVars
    /\ UNCHANGED eventVars

\* one iteration of the while loop of measure
MeasurePoll(k, link_fails) ==
    /\ pc = "measure"
    /\ link_fails => k = 0
    /\ before_deadline(now, loc.deadline)
    /\ k <= Len(rx) \/ k = MaxPending
    /\ LET m0 == [ppk |-> ppk, port |-> port, io |-> io, err |-> "none"]
           m1 == read_available(m0, link_fails)
           raw == SubSeq(rx, 1, Arrived(k))
       IN  IF m1.err # "none"
           THEN /\ ppk' = m1.ppk /\ port' = m1.port /\ io' = m1.io
                /\ last_op' = [last_op EXCEPT !.err = m1.err]
                /\ pc' = "idle"
                /\ loc' = NoLoc
                /\ UNCHANGED <<rx, now, cap>>
           ELSE IF raw = <<>>
           THEN /\ now' = now + SLEEP_IDLE
                /\ ppk' = m1.ppk /\ port' = m1.port /\ io' = m1.io
                /\ UNCHANGED <<rx, pc, loc, cap, last_op>>
           ELSE LET fd == feed(m1.ppk.parser, raw)
                    m2 == [m1 EXCEPT !.ppk.parser = fd.p]
                    r == measure_frames(m2, loc, fd.results)
                    nm == Cardinality({i \in 1..Len(fd.results) : fd.results[i] = LossMarker})
                IN  /\ ppk' = r.m.ppk /\ port' = r.m.port /\ io' = r.m.io
                    /\ loc' = IF r.m.err = "none" THEN r.loc ELSE NoLoc
                    /\ cap' = [bytes |-> cap.bytes + Len(raw),
                               frames |-> cap.frames + Len(fd.results) - nm,
                               markers |-> cap.markers + nm]
                    /\ rx' = SubSeq(rx, Arrived(k) + 1, Len(rx))
                    /\ last_op' = [last_op EXCEPT !.err = r.m.err]
                    /\ pc' = IF r.m.err = "none" THEN "measure" ELSE "idle"
                    /\ UNCHANGED now
    /\ ncalls' = ncalls
    /\ UNCHANGED <<meta_rx, ret, parser, gen, sent, fed_bytes, out, last_ret, last_chunk, aligned, nresets>>
    /\ UNCHANGED fileVars
    /\ UNCHANGED spikeVars
    /\ UNCHANGED eventVars

\* the deadline has passed: stop_measuring and return the MeasurementResult
MeasureEnd ==
    /\ pc = "measure"
    /\ ~before_deadline(now, loc.deadline)
    /\ LET m == stop_measuring([ppk |-> ppk, port |-> port, io |-> io, err |-> "none"])
       IN  /\ ppk' = m.ppk /\ port' = m.port /\ io' = m.io
           /\ last_op' = [last_op EXCEPT !.err = m.err]
           /\ ret' = IF m.err = "none"
                     THEN [kind |-> "MeasurementResult",
                           samples |-> loc.samples,
                           duration_s |-> loc.duration,
                           sample_count |-> Len(loc.samples),
                           lost_samples |-> loc.lost]
                     ELSE NoRet
    /\ pc' = "idle"
    /\ loc' = NoLoc
    /\ UNCHANGED <<meta_rx, now, cap, ncalls, parserVars>>
    /\ UNCHANGED fileVars
    /\ UNCHANGED spikeVars
    /\ UNCHANGED eventVars

\* wait_for_digital(): the channel check, the mask, the deadline
WaitBegin(channel, level, timeout_s) ==
    /\ CanCall
    /\ io' = <<>>
    /\ ncalls' = ncalls + 1
    /\ ret' = NoRet
    /\ IF ~(0 <= channel /\ channel <= 7)
       THEN /\ last_op' = [op |-> "wait_for_digital", arg |-> <<channel, level, timeout_s>>,
                           err |-> "ValueError"]
            /\ UNCHANGED <<pc, loc>>
       ELSE /\ last_op' = [op |-> "wait_for_digital", arg |-> <<channel, level, timeout_s>>,
                           err |-> "none"]
            /\ pc' = "wait"
            /\ loc' = [NoLoc EXCEPT !.mask = 2 ^ channel,
                                    !.level = level,
                                    !.deadline = timeout_s,
                                    !.duration = timeout_s]
    /\ now' = 0
    /\ cap' = NoCap
    /\ UNCHANGED <<ppk, port, meta_rx, parserVars>>
    /\ UNCHANGED fileVars
    /\ UNCHANGED spikeVars
    /\ UNCHANGED eventVars

\* a wait_for_digital poll that converts and smooths the frames as measure does
WaitPollConverting(k, link_fails) ==
    /\ pc = "wait"
    /\ link_fails => k = 0
    /\ before_deadline(now, loc.deadline)
    /\ k <= Len(rx) \/ k = MaxPending
    /\ LET m0 == [ppk |-> ppk, port |-> port, io |-> io, err |-> "none"]
           m1 == read_available(m0, link_fails)
           raw == SubSeq(rx, 1, Arrived(k))
       IN  IF m1.err # "none"
           THEN /\ io' = m1.io
                /\ last_op' = [last_op EXCEPT !.err = m1.err]
                /\ pc' = "idle"
                /\ loc' = NoLoc
                /\ UNCHANGED <<ppk, rx, now, ret, cap>>
           ELSE IF raw = <<>>
           THEN /\ now' = now + SLEEP_IDLE
                /\ io' = m1.io
                /\ UNCHANGED <<ppk, rx, pc, loc, last_op, ret, cap>>
           ELSE LET fd == feed(ppk.parser, raw)
                    hit == wait_frames(fd.results, loc.mask, loc.level)
                    nm == Cardinality({i \in 1..Len(fd.results) : fd.results[i] = LossMarker})
                    conv == measure_frames([m1 EXCEPT !.ppk.parser = fd.p],
                                           [loc EXCEPT !.spike = TRUE], fd.results)
                IN  /\ ppk' = conv.m.ppk
                    /\ cap' = [bytes |-> cap.bytes + Len(raw),
                               frames |-> cap.frames + Len(fd.results) - nm,
                               markers |-> cap.markers + nm]
                    /\ io' = m1.io
                    /\ rx' = SubSeq(rx, Arrived(k) + 1, Len(rx))
                    /\ pc' = IF hit THEN "idle" ELSE "wait"
                    /\ loc' = IF hit THEN NoLoc ELSE loc
                    /\ ret' = IF hit THEN [kind |-> "bool", value |-> TRUE] ELSE ret
                    /\ UNCHANGED <<now, last_op>>
    /\ UNCHANGED <<port, meta_rx, ncalls, parser, gen, sent, fed_bytes, out, last_ret,
                   last_chunk, aligned, nresets>>
    /\ UNCHANGED fileVars
    /\ UNCHANGED spikeVars
    /\ UNCHANGED eventVars

\* one iteration of the while loop of wait_for_digital
WaitPoll(k, link_fails) ==
    /\ pc = "wait"
    /\ link_fails => k = 0
    /\ before_deadline(now, loc.deadline)
    /\ k <= Len(rx) \/ k = MaxPending
    /\ LET m0 == [ppk |-> ppk, port |-> port, io |-> io, err |-> "none"]
           m1 == read_available(m0, link_fails)
           raw == SubSeq(rx, 1, Arrived(k))
       IN  IF m1.err # "none"
           THEN /\ io' = m1.io
                /\ last_op' = [last_op EXCEPT !.err = m1.err]
                /\ pc' = "idle"
                /\ loc' = NoLoc
                /\ UNCHANGED <<ppk, rx, now, ret, cap>>
           ELSE IF raw = <<>>
           THEN /\ now' = now + SLEEP_IDLE
                /\ io' = m1.io
                /\ UNCHANGED <<ppk, rx, pc, loc, last_op, ret, cap>>
           ELSE LET fd == feed(ppk.parser, raw)
                    hit == wait_frames(fd.results, loc.mask, loc.level)
                    nm == Cardinality({i \in 1..Len(fd.results) : fd.results[i] = LossMarker})
                IN  /\ ppk' = [ppk EXCEPT !.parser = fd.p]
                    /\ cap' = [bytes |-> cap.bytes + Len(raw),
                               frames |-> cap.frames + Len(fd.results) - nm,
                               markers |-> cap.markers + nm]
                    /\ io' = m1.io
                    /\ rx' = SubSeq(rx, Arrived(k) + 1, Len(rx))
                    /\ pc' = IF hit THEN "idle" ELSE "wait"
                    /\ loc' = IF hit THEN NoLoc ELSE loc
                    /\ ret' = IF hit THEN [kind |-> "bool", value |-> TRUE] ELSE ret
                    /\ UNCHANGED <<now, last_op>>
    /\ UNCHANGED <<port, meta_rx, ncalls, parser, gen, sent, fed_bytes, out, last_ret,
                   last_chunk, aligned, nresets>>
    /\ UNCHANGED fileVars
    /\ UNCHANGED spikeVars
    /\ UNCHANGED eventVars

\* the deadline has passed: wait_for_digital returns False
WaitEnd ==
    /\ pc = "wait"
    /\ ~before_deadline(now, loc.deadline)
    /\ pc' = "idle"
    /\ loc' = NoLoc
    /\ ret' = [kind |-> "bool", value |-> FALSE]
    /\ UNCHANGED <<ppk, port, meta_rx, io, now, last_op, cap, ncalls, parserVars>>
    /\ UNCHANGED fileVars
    /\ UNCHANGED spikeVars
    /\ UNCHANGED eventVars

\* _connect up to the metadata request; the instrument queues its answer
ConnectBegin(response) ==
    /\ CanCall
    /\ ~port.is_open
    /\ ~ppk.metadata.present
    /\ LET m0 == [Machine EXCEPT !.port.is_open = TRUE]
           m1 == send(m0, average_stop)
           m2 == IF m1.err = "none" THEN read_available(m1, FALSE) ELSE m1
           m3 == send(m2, get_metadata)
       IN  /\ ppk' = m3.ppk /\ port' = m3.port /\ io' = m3.io
           /\ last_op' = [op |-> "connect", arg |-> <<>>, err |-> m3.err]
           /\ meta_rx' = response
           /\ rx' = <<>>
           /\ now' = SLEEP_DRAIN
           /\ pc' = "connect"
           /\ loc' = [NoLoc EXCEPT !.deadline = SLEEP_DRAIN + METADATA_WINDOW]
    /\ ncalls' = ncalls + 1
    /\ ret' = NoRet
    /\ UNCHANGED <<cap, parser, gen, sent, fed_bytes, out, last_ret, last_chunk, aligned, nresets>>
    /\ UNCHANGED fileVars
    /\ UNCHANGED spikeVars
    /\ UNCHANGED eventVars

\* one iteration of the while loop of _read_metadata, and the rest of
\* _connect once END has been seen
ConnectRead ==
    /\ pc = "connect"
    /\ now < loc.deadline
    /\ LET m0 == [ppk |-> ppk, port |-> port, io |-> NoteRead(io), err |-> "none"]
       IN  IF meta_rx = <<>>
           THEN /\ now' = now + READ_TIMEOUT
                /\ io' = m0.io
                /\ UNCHANGED <<ppk, port, meta_rx, pc, loc, last_op>>
           ELSE LET text == append_text(loc.text, Head(meta_rx))
                IN  /\ meta_rx' = Tail(meta_rx)
                    /\ IF text.present
                       THEN LET m == connect_finish(m0, text)
                            IN  /\ ppk' = m.ppk /\ port' = m.port /\ io' = m.io
                                /\ last_op' = [last_op EXCEPT !.err = m.err]
                                /\ pc' = "idle"
                                /\ loc' = NoLoc
                       ELSE /\ loc' = [loc EXCEPT !.text = text]
                            /\ io' = m0.io
                            /\ UNCHANGED <<ppk, port, pc, last_op>>
                    /\ UNCHANGED now
    /\ UNCHANGED <<ret, cap, ncalls, parserVars>>
    /\ UNCHANGED fileVars
    /\ UNCHANGED spikeVars
    /\ UNCHANGED eventVars

\* the metadata window has passed without END: TimeoutError
ConnectTimeout ==
    /\ pc = "connect"
    /\ ~(now < loc.deadline)
    /\ last_op' = [last_op EXCEPT !.err = "TimeoutError"]
    /\ pc' = "idle"
    /\ loc' = NoLoc
    /\ UNCHANGED <<ppk, port, meta_rx, io, now, ret, cap, ncalls, parserVars>>
    /\ UNCHANGED fileVars
    /\ UNCHANGED spikeVars
    /\ UNCHANGED eventVars

\* the instrument streams its next frame; delta - 1 frames were lost before it
Stream(delta, range_idx) ==
    /\ port.is_open /\ port.streaming
    /\ gen.n < MaxDeviceFrames
    /\ Len(rx) + FRAME_SIZE <= MaxPending
    /\ delta # 1 => gen.drops < MaxDrops
    /\ range_idx # SourceRange => gen.odd < MaxOddFrames
    /\ LET c == (gen.counter + delta) % 64
       IN  /\ rx' = rx \o make_sample_frame(SourceAdc, range_idx, c, gen.n + 1)
           /\ gen' = [counter |-> c, n |-> gen.n + 1,
                      drops |-> gen.drops + (IF delta # 1 THEN 1 ELSE 0),
                      odd |-> gen.odd + (IF range_idx # SourceRange THEN 1 ELSE 0)]
    /\ UNCHANGED <<parser, sent, fed_bytes, out, last_ret, last_chunk, aligned, nresets>>
    /\ UNCHANGED deviceVars
    /\ UNCHANGED fileVars
    /\ UNCHANGED spikeVars
    /\ UNCHANGED eventVars

\* the clock advances while a call is polling
Tick ==
    /\ pc \in {"measure", "wait"}
    /\ now < loc.deadline
    /\ now' = now + 1
    /\ UNCHANGED <<ppk, port, meta_rx, io, pc, loc, last_op, ret, cap, ncalls, parserVars>>
    /\ UNCHANGED fileVars
    /\ UNCHANGED spikeVars
    /\ UNCHANGED eventVars

\* A capture session: connect, then measure / wait_for_digital on the
\* instrument's stream, with the settings calls that take no argument list
\* (a capture run makes two calls: connect and one capturing call)
CanCapture == ncalls < MaxCalls - 3

NextCapture ==
    \/ CanCapture /\ \E r \in CaptureResponses : ConnectBegin(r)
    \/ ConnectRead
    \/ CanCapture /\ StartMeasuring
    \/ CanCapture /\ \E a \in MeasureArgs : MeasureBegin(a[1], a[2])
    \/ \E k \in PollSizes, lf \in BOOLEAN : MeasurePoll(k, lf)
    \/ MeasureEnd
    \/ CanCapture /\ \E c \in CaptureChannels, l \in BOOLEAN, t \in WaitTimeouts : WaitBegin(c, l, t)
    \/ \E k \in PollSizes, lf \in BOOLEAN : WaitPoll(k, lf)
    \/ WaitEnd
    \/ \E d \in Deltas, r \in DeviceRanges : Stream(d, r)
    \/ Tick

SpecCapture == InitDevice /\ [][NextCapture]_vars

\* each polling loop gets to run, and the clock does not stop
SpecCaptureFair ==
    /\ SpecCapture
    /\ WF_vars(Tick)
    /\ WF_vars(\E k \in PollSizes : MeasurePoll(k, FALSE))
    /\ WF_vars(MeasureEnd)
    /\ WF_vars(\E k \in PollSizes : WaitPoll(k, FALSE))
    /\ WF_vars(WaitEnd)

\* a settings run makes three calls
CanSession == ncalls < MaxCalls - 2

\* The settings side of a session: every call of the API with valid and
\* invalid arguments, on a transport that is closed, open or closed again
NextSession ==
    \/ CanSession /\ \E r \in MetaResponses : ConnectBegin(r)
    \/ ConnectRead
    \/ ConnectTimeout
    \/ CanSession /\ Close
    \/ CanSession /\ \E b \in BOOLEAN : UsePowerMode(b)
    \/ CanSession /\ \E v \in Voltages : SetSourceVoltage(v)
    \/ CanSession /\ \E b \in BOOLEAN : ToggleDutPower(b)
    \/ CanSession /\ \E i \in GainIndexes, g \in Gains : SetUserGain(i, g)
    \/ CanSession /\ StartMeasuring
    \/ CanSession /\ StopMeasuring
    \/ CanSession /\ \E c \in Channels, l \in BOOLEAN, t \in WaitTimeouts : WaitBegin(c, l, t)
    \/ \E k \in PollSizes, lf \in BOOLEAN : WaitPoll(k, lf)
    \/ WaitEnd
    \/ \E d \in Deltas : Stream(d, SourceRange)
    \/ Tick

SpecSession == InitDevice /\ [][NextSession]_vars

\* Decoding restarted on a running stream: connect, then start_measuring and
\* wait_for_digital in any order while the instrument streams without gaps
NextRestart ==
    \/ \E r \in CaptureResponses : ConnectBegin(r)
    \/ ConnectRead
    \/ StartMeasuring
    \/ \E c \in CaptureChannels, l \in BOOLEAN, t \in WaitTimeouts : WaitBegin(c, l, t)
    \/ \E k \in PollSizes, lf \in BOOLEAN : WaitPoll(k, lf)
    \/ WaitEnd
    \/ Stream(1, SourceRange)
    \/ Tick

SpecRestart == InitDevice /\ [][NextRestart]_vars

-----------------------------------------------------------------------------
(* The decoder as a pure function of one packed frame: a stream of two      *)
(* frames with arbitrary field values, fed in arbitrary chunks             *)

AdcFields == {0, 1, 8191, 8192, 16383}
RangeFields == 0..7
CounterFields == {0, 1, 31, 32, 63}
LogicFields == {0, 1, 85, 128, 255}

\* the two frames of the stream: the drawn one and its bitwise complement
\* on the next counter
FramePair(v, r, c, d) ==
    <<[adc |-> v, range |-> r, counter |-> c, logic |-> d],
      [adc |-> 16383 - v, range |-> 7 - r, counter |-> (c + 1) % 64, logic |-> 255 - d]>>

InitDecode ==
    /\ InitDeviceVars
    /\ InitFileVars
    /\ parser = NewParser
    /\ \E v \in AdcFields, r \in RangeFields, c \in CounterFields, d \in LogicFields :
          /\ sent = FramePair(v, r, c, d)
          /\ rx = make_sample_frame(sent[1].adc, sent[1].range, sent[1].counter, sent[1].logic)
                  \o make_sample_frame(sent[2].adc, sent[2].range, sent[2].counter, sent[2].logic)
          /\ gen = [counter |-> sent[2].counter, n |-> 2, drops |-> 0, odd |-> 0]
    /\ fed_bytes = <<>>
    /\ out = <<>>
    /\ last_ret = <<>>
    /\ last_chunk = <<>>
    /\ aligned = TRUE
    /\ nresets = 0

NextDecode == \E k \in 0..MaxPending : ParserFeed(k)

SpecDecode == InitDecode /\ [][NextDecode]_vars

-----------------------------------------------------------------------------
(* The decoder on a long lossy stream: each frame is fed whole as it is     *)
(* produced, the counter now and then jumps, and the run goes on until the  *)
(* loss total has passed the reporting threshold. This specification keeps  *)
(* no stream history: sent, fed_bytes and out stay empty.                   *)

MaxLossTotal == 570   \* no frame is produced once the loss total has reached this

\* counter steps of the lossy stream: in sequence, or 62 frames missing
LossDeltas == {1, 63}

\* the instrument emits its next frame and feed() is called with its 4 bytes
LossFeed(delta) ==
    /\ parser.dataloss_counter < MaxLossTotal
    /\ LET c == IF parser.expected_counter = None THEN gen.counter
                ELSE (gen.counter + delta) % 64
           chunk == make_sample_frame(SourceAdc, SourceRange, c, 0)
           r == feed(parser, chunk)
       IN  /\ parser' = r.p
           /\ last_ret' = r.results
           /\ last_chunk' = chunk
           /\ gen' = [gen EXCEPT !.counter = c]
    /\ UNCHANGED <<rx, sent, fed_bytes, out, aligned, nresets>>
    /\ UNCHANGED deviceVars
    /\ UNCHANGED fileVars
    /\ UNCHANGED spikeVars
    /\ UNCHANGED eventVars

\* parser.reset() between two frames
LossReset ==
    /\ nresets < MaxResets
    /\ parser' = parser_reset(parser)
    /\ nresets' = nresets + 1
    /\ last_ret' = <<>>
    /\ last_chunk' = <<>>
    /\ UNCHANGED <<rx, gen, sent, fed_bytes, out, aligned>>
    /\ UNCHANGED deviceVars
    /\ UNCHANGED fileVars
    /\ UNCHANGED spikeVars
    /\ UNCHANGED eventVars

NextLoss ==
    \/ \E d \in LossDeltas : LossFeed(d)
    \/ LossReset

SpecLoss == InitParser /\ [][NextLoss]_vars


-----------------------------------------------------------------------------
(* ppk2file.py: save_ppk2, load_ppk2, _build_minimap.                      *)
(* The ZIP archive is the record of its three members; session.raw is a    *)
(* sequence of bytes, the two JSON members are the values they encode.     *)
(* Currents are whole microamps below 2^24 in magnitude, times are whole   *)
(* microseconds, a quotient that need not be whole is the pair num / den.  *)

SESSION_FRAME_SIZE == 6
FORMAT_VERSION == 2
SAMPLES_PER_SECOND == 100000
MINIMAP_MAX_ELEMENTS == 10000

\* bytes(session_buf), and a list filled by append: the finite sequence of
\* the elements in order
bytes(b) == b \o <<>>

list(f) == f \o <<>>

\* floor(log2(x)) for x >= 1
RECURSIVE Log2(_)
Log2(x) == IF x < 2 THEN 0 ELSE 1 + Log2(x \div 2)

\* struct.pack("<f", x) for a whole x: the four bytes of the IEEE-754
\* single, least significant first (sign, biased exponent, 23 fraction bits)
pack_float32(x) ==
    IF x = 0 THEN <<0, 0, 0, 0>>
    ELSE LET sign == IF x < 0 THEN 1 ELSE 0
             mag == IF x < 0 THEN 0 - x ELSE x
             e == Log2(mag)
             mant == IF e <= 23 THEN mag * (2 ^ (23 - e)) ELSE mag \div (2 ^ (e - 23))
             frac == mant - 8388608
             biased == e + 127
         IN  <<frac % 256,
               (frac \div 256) % 256,
               ((biased % 2) * 128) + (frac \div 65536),
               (sign * 128) + (biased \div 2)>>

\* struct.unpack("<f", b) for the bytes of a whole number
unpack_float32(b) ==
    LET sign == b[4] \div 128
        biased == ((b[4] % 128) * 2) + (b[3] \div 128)
        frac == ((b[3] % 128) * 65536) + (b[2] * 256) + b[1]
        mant == 8388608 + frac
        e == biased - 127
        mag == IF e >= 23 THEN mant * (2 ^ (e - 23)) ELSE mant \div (2 ^ (23 - e))
    IN  IF biased = 0 /\ frac = 0 THEN 0
        ELSE IF sign = 1 THEN 0 - mag ELSE mag

\* struct.pack("<H", v) and struct.unpack("<H", b)
pack_uint16(v) == <<v % 256, (v \div 256) % 256>>

unpack_uint16_be(b) == (b[1] * 256) + b[2]

unpack_uint16(b) == b[1] + (b[2] * 256)

\* struct.pack_into("<fH", ..., s.current_ua, s.logic): one 6-byte frame
pack_fH(s) == pack_float32(s.current_ua) \o pack_uint16(s.logic)

\* the while loop of _build_minimap: n / fold_count > MINIMAP_MAX_ELEMENTS
\* with fold_count a power of two is n > MINIMAP_MAX_ELEMENTS * fold_count
RECURSIVE fold_level_eager(_, _, _)
fold_level_eager(n, fold_count, n_folds) ==
    IF n >= MINIMAP_MAX_ELEMENTS * fold_count
    THEN fold_level_eager(n, fold_count * 2, n_folds + 1)
    ELSE [fold_count |-> fold_count, n_folds |-> n_folds]

RECURSIVE fold_level(_, _, _)
fold_level(n, fold_count, n_folds) ==
    IF n > MINIMAP_MAX_ELEMENTS * fold_count
    THEN fold_level(n, fold_count * 2, n_folds + 1)
    ELSE [fold_count |-> fold_count, n_folds |-> n_folds]

\* the current of the first sample of the bucket instead of min(currents)
bucket_min_first(samples, first, last) == samples[first].current_ua

\* min(currents) and max(currents) of samples[first .. last]
bucket_min(samples, first, last) ==
    CHOOSE m \in {samples[j].current_ua : j \in first..last} :
        \A j \in first..last : m <= samples[j].current_ua

bucket_max(samples, first, last) ==
    CHOOSE m \in {samples[j].current_ua : j \in first..last} :
        \A j \in first..last : m >= samples[j].current_ua

\* _build_minimap for a sampling rate that is not 0. The b-th bucket (b from
\* 1) starts at bucket_start = (b - 1) * fold_count of range(0, n, fold_count),
\* which has ceil(n / fold_count) elements; y is in nanoamps
build_minimap(samples, samples_per_second) ==
    IF samples = <<>>
    THEN [lastElementFoldCount |-> 0,
          data |-> [length |-> 0, min |-> <<>>, max |-> <<>>],
          maxNumberOfElements |-> MINIMAP_MAX_ELEMENTS,
          numberOfTimesToFold |-> 0]
    ELSE LET us_per_sample == 1000000 \div samples_per_second
             n == Len(samples)
             lv == fold_level(n, 1, 0)
             fold_count == lv.fold_count
             nbuckets == (n + fold_count - 1) \div fold_count
             bucket_start(b) == (b - 1) * fold_count
             bucket_end(b) == IF bucket_start(b) + fold_count < n
                              THEN bucket_start(b) + fold_count ELSE n
             min_points == list([b \in 1..nbuckets |->
                               [x |-> bucket_start(b) * us_per_sample,
                                y |-> bucket_min(samples, bucket_start(b) + 1, bucket_end(b)) * 1000]])
             max_points == list([b \in 1..nbuckets |->
                               [x |-> bucket_start(b) * us_per_sample,
                                y |-> bucket_max(samples, bucket_start(b) + 1, bucket_end(b)) * 1000]])
         IN  [lastElementFoldCount |-> fold_count,
              data |-> [length |-> Len(min_points), min |-> min_points, max |-> max_points],
              maxNumberOfElements |-> MINIMAP_MAX_ELEMENTS,
              numberOfTimesToFold |-> lv.n_folds]

\* save_ppk2 up to the archive it writes; 1_000_000 / samples_per_second in
\* _build_minimap raises ZeroDivisionError for a rate of 0 and samples present
save_ppk2(r, start_time_ms, samples_per_second) ==
    LET n == Len(r.samples)
        frames == list([i \in 1..n |-> pack_fH(r.samples[i])])
        session_buf == [j \in 1..(n * SESSION_FRAME_SIZE) |->
                           frames[((j - 1) \div SESSION_FRAME_SIZE) + 1]
                                 [((j - 1) % SESSION_FRAME_SIZE) + 1]]
        metadata == [metadata |-> [samplesPerSecond |-> samples_per_second,
                                   startSystemTime |-> start_time_ms],
                     formatVersion |-> FORMAT_VERSION]
    IN  IF samples_per_second = 0 /\ r.samples # <<>>
        THEN [err |-> "ZeroDivisionError", archive |-> NoArchive]
        ELSE [err |-> "none",
              archive |-> [exists |-> TRUE,
                           session_raw |-> bytes(session_buf),
                           metadata_json |-> metadata,
                           minimap_raw |-> build_minimap(r.samples, samples_per_second)]]

\* load_ppk2 of an archive save_ppk2 wrote
load_ppk2(a) ==
    LET session_data == a.session_raw
        meta == a.metadata_json.metadata
        samples_per_second == meta.samplesPerSecond
        n_samples == Len(session_data) \div SESSION_FRAME_SIZE
        samples == list([i \in 1..n_samples |->
                       LET offset == (i - 1) * SESSION_FRAME_SIZE
                           at(k) == session_data[offset + k]
                       IN  [current_ua |-> unpack_float32(<<at(1), at(2), at(3), at(4)>>),
                            range |-> 0,
                            logic |-> unpack_uint16(<<at(5), at(6)>>),
                            counter |-> (i - 1) % 64]])
    IN  [kind |-> "MeasurementResult",
         samples |-> samples,
         duration_s |-> IF samples_per_second # 0
                        THEN [num |-> n_samples, den |-> samples_per_second]
                        ELSE [num |-> 0, den |-> 1],
         sample_count |-> n_samples,
         lost_samples |-> 0]

-----------------------------------------------------------------------------
(* Capture files: a MeasurementResult is saved, and the file is loaded      *)

SampleCurrents == {-3, 0, 2000000}
SampleRanges == {0, 3}
SampleLogics == {0, 85, 255}
LostCounts == {0, 2}
SampleRates == {0, 1000, SAMPLES_PER_SECOND}
StartTimes == {None, 1000}
WallClockMs == {5000}

\* the sample counts around the fold thresholds of the overview
OverviewSizes == {500, 9999, 10000, 10001, 19999, 20000, 20001, 40000, 40001}

FileSamples ==
    [current_ua : SampleCurrents, range : SampleRanges, logic : SampleLogics, counter : {7}]

ShortLists ==
    {<<>>} \cup {<<a>> : a \in FileSamples} \cup {<<a, b>> : a, b \in FileSamples}

\* a long capture: currents wander, ranges cycle, the digital pattern is
\* 0x00, 0xFF, 0x55 at successive positions
LongList(n) ==
    list([i \in 1..n |->
        [current_ua |-> 1000 + ((i * 37) % 101),
         range |-> i % 5,
         logic |-> <<0, 255, 85>>[((i - 1) % 3) + 1],
         counter |-> (i - 1) % 64]])

\* MeasurementResult(samples, duration_s, sample_count, lost_samples) as measure builds it
MakeResult(samples, lost) ==
    [kind |-> "MeasurementResult",
     samples |-> samples,
     duration_s |-> [num |-> 1, den |-> 100],
     sample_count |-> Len(samples),
     lost_samples |-> lost]

InitFile ==
    /\ InitDeviceVars
    /\ InitParserVars
    /\ InitSpikeVars
    /\ InitEventVars
    /\ \/ \E samples \in ShortLists, lost \in LostCounts : result = MakeResult(samples, lost)
       \/ \E n \in OverviewSizes : result = MakeResult(LongList(n), 1)
    /\ archive = NoArchive
    /\ loaded = NoResult

\* save_ppk2(result, path, start_time_ms, samples_per_second); without a
\* start time the wall clock is read
SavePpk2(start_time_ms, wall_ms, samples_per_second) ==
    /\ result.kind = "MeasurementResult"
    /\ ~archive.exists
    /\ \E s \in {save_ppk2(result, IF start_time_ms = None THEN wall_ms ELSE start_time_ms,
                             samples_per_second)} :
          /\ archive' = IF s.err = "none" THEN s.archive ELSE archive
          /\ last_op' = [op |-> "save_ppk2", arg |-> <<start_time_ms, samples_per_second>>,
                         err |-> s.err]
    /\ UNCHANGED <<result, loaded>>
    /\ UNCHANGED <<ppk, port, meta_rx, io, pc, loc, now, ret, cap, ncalls>>
    /\ UNCHANGED parserVars
    /\ UNCHANGED spikeVars
    /\ UNCHANGED eventVars

\* load_ppk2(path)
LoadPpk2 ==
    /\ archive.exists
    /\ loaded = NoResult
    /\ loaded' = load_ppk2(archive)
    /\ last_op' = [op |-> "load_ppk2", arg |-> <<>>, err |-> "none"]
    /\ UNCHANGED <<result, archive>>
    /\ UNCHANGED <<ppk, port, meta_rx, io, pc, loc, now, ret, cap, ncalls>>
    /\ UNCHANGED parserVars
    /\ UNCHANGED spikeVars
    /\ UNCHANGED eventVars

NextFile ==
    \/ \E t \in StartTimes, w \in WallClockMs, r \in SampleRates : SavePpk2(t, w, r)
    \/ LoadPpk2

SpecFile == InitFile /\ [][NextFile]_vars

-----------------------------------------------------------------------------
(* conversion.py driven on its own: adc_to_microamps on chosen inputs and a *)
(* SpikeFilter object fed with chosen values and ranges                     *)

MaxFilterCalls == 6     \* process() calls between two reset() calls

AdcValues == {0, 8000}
FilterRanges == {0, 3, 4}

InitConversion == InitDevice

\* current = adc_to_microamps(adc_raw, range_idx, modifiers, vdd_mv);
\* current = sf.process(current, range_idx)
ConvertFilter(adc_raw, range_idx) ==
    /\ Len(spike_log) < MaxFilterCalls
    /\ \E current \in {adc_to_microamps(adc_raw, range_idx, spike.modifiers, spike.vdd_mv)} :
       \E r \in {spike_process(spike.f, current, range_idx)} :
          /\ spike' = [spike EXCEPT !.f = r.f]
          /\ spike_log' = Append(spike_log, [adc_raw |-> adc_raw, range |-> range_idx,
                                             value |-> current, returned |-> r.value,
                                             before |-> spike.f])
    /\ UNCHANGED deviceVars
    /\ UNCHANGED parserVars
    /\ UNCHANGED fileVars
    /\ UNCHANGED eventVars

\* sf.reset()
FilterReset ==
    /\ spike_log # <<>>
    /\ spike.resets < MaxResets
    /\ spike' = [spike EXCEPT !.f = spike_reset(@), !.resets = @ + 1]
    /\ spike_log' = <<>>
    /\ UNCHANGED deviceVars
    /\ UNCHANGED parserVars
    /\ UNCHANGED fileVars
    /\ UNCHANGED eventVars

NextConversion ==
    \/ \E a \in AdcValues, k \in FilterRanges : ConvertFilter(a, k)
    \/ FilterReset

SpecConversion == InitConversion /\ [][NextConversion]_vars

-----------------------------------------------------------------------------
(* adc_to_microamps as a function of its four arguments *)

ConvertAdc == {0, 1, 8000, 16383}
ConvertRanges == 0..4
ConvertVdd == {VDD_MIN, 3700, VDD_MAX}

\* coefficients of a calibrated instrument: an ADC offset of 100 counts,
\* S = 0.001 and I = -0.002 on every range
CalibratedModifiers ==
    [DefaultModifiers EXCEPT !.o = <<100, 100, 100, 100, 100>>,
                             !.s = <<1, 1, 1, 1, 1>>,
                             !.i = <<-2, -2, -2, -2, -2>>]

ConvertModifiers == {DefaultModifiers, CalibratedModifiers}

\* the modifiers and the source voltage of the session are chosen at the start
InitConvert ==
    /\ InitDeviceVars
    /\ InitParserVars
    /\ result = NoResult
    /\ archive = NoArchive
    /\ loaded = NoResult
    /\ InitEventVars
    /\ spike_log = <<>>
    /\ \E m \in ConvertModifiers, v \in ConvertVdd :
          spike = [f |-> NewSpikeFilter, modifiers |-> m, vdd_mv |-> v, resets |-> 0]

\* adc_to_microamps(adc_raw, range_idx, modifiers, vdd_mv)
Convert(adc_raw, range_idx) ==
    /\ ret' = [kind |-> "float",
               value |-> adc_to_microamps(adc_raw, range_idx, spike.modifiers, spike.vdd_mv)]
    /\ last_op' = [op |-> "adc_to_microamps", arg |-> <<adc_raw, range_idx>>, err |-> "none"]
    /\ UNCHANGED <<ppk, port, meta_rx, io, pc, loc, now, cap, ncalls>>
    /\ UNCHANGED parserVars
    /\ UNCHANGED fileVars
    /\ UNCHANGED spikeVars
    /\ UNCHANGED eventVars

NextConvert == \E a \in ConvertAdc, k \in ConvertRanges : Convert(a, k)

SpecConvert == InitConvert /\ [][NextConvert]_vars

-----------------------------------------------------------------------------
(* The decoder fed frame by frame from a stream whose counter may jump:    *)
(* a step of k + 1 is a gap of k dropped frames, a step of 0 a gap of 63   *)

MaxResyncFrames == 7    \* frames of one run of the resynchronisation specification

ResyncDeltas == {0, 1, 2, 32, 63}

\* the instrument emits its next frame, the counter stepping by delta, and
\* feed() is called with its 4 bytes
ResyncFeed(delta) ==
    /\ gen.n < MaxResyncFrames
    /\ LET c == IF gen.n = 0 THEN gen.counter ELSE (gen.counter + delta) % 64
           f == [adc |-> SourceAdc, range |-> SourceRange, counter |-> c, logic |-> gen.n + 1]
           chunk == make_sample_frame(f.adc, f.range, f.counter, f.logic)
           r == feed(parser, chunk)
       IN  /\ parser' = r.p
           /\ last_ret' = r.results
           /\ last_chunk' = chunk
           /\ out' = out \o r.results
           /\ fed_bytes' = fed_bytes \o chunk
           /\ sent' = Append(sent, f)
           /\ gen' = [gen EXCEPT !.counter = c, !.n = gen.n + 1]
    /\ UNCHANGED <<rx, aligned, nresets>>
    /\ UNCHANGED deviceVars
    /\ UNCHANGED fileVars
    /\ UNCHANGED spikeVars
    /\ UNCHANGED eventVars

NextResync == \E delta \in ResyncDeltas : ResyncFeed(delta)

SpecResync == InitParser /\ [][NextResync]_vars

-----------------------------------------------------------------------------
(* Properties of the decoder *)

NumComplete == Len(fed_bytes) \div FRAME_SIZE

Gapless(fs) ==
    \A i \in 2..Len(fs) : fs[i].counter = (fs[i - 1].counter + 1) % 64

\* the frames of sent whose four bytes have all been fed
FedFrames == SubSeq(sent, 1, NumComplete)

\* C1: a gapless counter sequence (mod 64, wrap included) fed to a freshly
\* reset decoder comes out frame for frame, once each and in order, with no
\* loss marker and a cumulative loss total of 0.
C1_GaplessEmitsAll ==
    (aligned /\ Gapless(FedFrames)) =>
        /\ out = [i \in 1..NumComplete |-> FrameTuple(sent[i])]
        /\ \A i \in 1..Len(out) : out[i] # LossMarker
        /\ parser.dataloss_counter = 0

\* a gapless run of MaxFrames frames that wrapped 63 -> 0 has been decoded
C1_Witness ==
    /\ aligned
    /\ NumComplete = MaxFrames
    /\ Gapless(FedFrames)
    /\ \E i \in 2..NumComplete : sent[i - 1].counter = 63 /\ sent[i].counter = 0
    /\ Len(out) = MaxFrames

\* C2: however the byte stream is cut into feed() calls, the concatenated
\* results equal those of one feed() of the whole stream to a fresh decoder;
\* the bytes of an incomplete frame stay in the remainder and nothing is
\* emitted for them.
C2_ChunkingEquivalence ==
    LET whole == feed(NewParser, fed_bytes)
        tail == Len(fed_bytes) % FRAME_SIZE
    IN  /\ out = whole.results
        /\ parser = whole.p
        /\ parser.remainder = SubSeq(fed_bytes, Len(fed_bytes) - tail + 1, Len(fed_bytes))
        /\ Cardinality({i \in 1..Len(out) : out[i] # LossMarker}) >= NumComplete
        /\ NumComplete = 0 => out = <<>>

\* a frame arrived in two calls split inside the frame, after an earlier frame
C2_Witness ==
    /\ Len(fed_bytes) >= 2 * FRAME_SIZE
    /\ Len(parser.remainder) = 0
    /\ last_ret # <<>>
    /\ Len(last_ret) < Len(out)
    /\ Len(last_chunk) \in 1..(FRAME_SIZE - 1)

\* C3: a frame packed little-endian from a 14-bit ADC field v, a 3-bit range
\* r, a 6-bit counter c and an 8-bit bitmask d is emitted by feed() as the
\* tuple (v * 4, r, c, d), for every value of the four fields.
C3_DecodedFields ==
    /\ Len(out) = NumComplete
    /\ \A i \in 1..NumComplete :
          out[i] = <<sent[i].adc * 4, sent[i].range, sent[i].counter, sent[i].logic>>

\* both frames decoded, the first with every field at its largest value
C3_Witness ==
    /\ NumComplete = 2
    /\ Len(out) = 2
    /\ sent[1] = [adc |-> 16383, range |-> 7, counter |-> 63, logic |-> 255]
    /\ out[2] = <<0, 0, 0, 0>>

-----------------------------------------------------------------------------
(* Properties of the device session *)

TransportErrors == {"ConnectionError", "SerialException"}

\* the last call was measure() and it has returned its result
MeasureReturned ==
    /\ pc = "idle"
    /\ last_op.op = "measure"
    /\ last_op.err = "none"
    /\ ret.kind = "MeasurementResult"

\* the last call was wait_for_digital() and it has returned
WaitReturned ==
    /\ pc = "idle"
    /\ last_op.op = "wait_for_digital"
    /\ last_op.err = "none"
    /\ ret.kind = "bool"

Polling == pc \in {"measure", "wait"}

\* C4: in the MeasurementResult measure() returns, sample_count is
\* len(samples) and the number of frames the decoder emitted during the
\* capture; lost_samples is the number of loss markers it emitted, which is
\* the decoder's cumulative loss total at return; markers add no sample.
C4_ResultCounts ==
    MeasureReturned =>
        /\ ret.sample_count = Len(ret.samples)
        /\ ret.sample_count = cap.frames
        /\ ret.lost_samples = cap.markers
        /\ ret.lost_samples = ppk.parser.dataloss_counter

\* a capture that saw a counter gap returned samples and a loss count
C4_Witness ==
    /\ MeasureReturned
    /\ ret.lost_samples > 0
    /\ ret.sample_count > 0
    /\ cap.markers = ret.lost_samples

\* C5: a measure() call that returns has reset the decoder and the spike
\* smoother, then written exactly one start command before any read, then
\* only read, then written exactly one stop command after its last read,
\* and has written nothing else; the session is not measuring at return.
C5_MeasureOrdering ==
    MeasureReturned =>
        /\ ~ppk.is_measuring
        /\ Len(io) \in {4, 5}
        /\ {io[1], io[2]} = {EV_RESET_FILTER, EV_RESET_PARSER}
        /\ io[3] = <<AVERAGE_START>>
        /\ Len(io) = 5 => io[4] = EV_READ
        /\ io[Len(io)] = <<AVERAGE_STOP>>

\* a capture that read frames from the transport has returned
C5_Witness ==
    /\ MeasureReturned
    /\ Len(io) = 5
    /\ cap.frames > 1

\* C6: a capture in progress ends only by returning its result at the
\* deadline or by a transport error that propagates, whatever counters, loss
\* or field values the delivered frames carry.
C6_EndsOnlyAtDeadlineOrTransportError ==
    (pc = "idle" /\ last_op.op = "measure") =>
        \/ last_op.err = "none" /\ ret.kind = "MeasurementResult"
        \/ last_op.err \in TransportErrors

\* C7: measure() and wait_for_digital() keep the deadline they computed at
\* entry, poll no more once the clock has reached it, and always terminate;
\* when no byte was ever delivered, measure() returns an empty result and
\* wait_for_digital() returns False: an empty poll is not an error.
C7_TerminatesAtDeadline ==
    /\ [][(Polling /\ pc' = pc) => loc'.deadline = loc.deadline]_vars
    /\ [][(Polling /\ ~(now < loc.deadline) /\ pc' = pc) => (io' = io /\ ppk' = ppk)]_vars
    /\ [][(Polling /\ pc' = "idle" /\ cap'.bytes = 0 /\ port.is_open)
             => last_op'.err \in {"none", "SerialException"}]_vars
    /\ []((MeasureReturned /\ cap.bytes = 0) =>
             (ret.samples = <<>> /\ ret.sample_count = 0 /\ ret.lost_samples = 0))
    /\ []((WaitReturned /\ cap.bytes = 0) => ret.value = FALSE)
    /\ (Polling ~> pc = "idle")

\* a capture of non-zero duration on which no byte arrived has returned
C7_Witness ==
    /\ MeasureReturned
    /\ last_op.arg[1] > 0
    /\ cap.bytes = 0
    /\ ret.sample_count = 0
    /\ Len(io) = 5

\* the arguments of a call that the API documents as out of range
InvalidArguments(call) ==
    \/ call.op = "set_source_voltage" /\ ~(call.arg[1] \in 800..5000)
    \/ call.op = "set_user_gain" /\ ~(call.arg[1] \in 0..4)
    \/ call.op = "wait_for_digital" /\ ~(call.arg[1] \in 0..7)

\* C10: set_source_voltage outside 800-5000 mV, set_user_gain with a range
\* index outside 0-4 and wait_for_digital with a channel outside 0-7 raise
\* ValueError without writing to or reading from the transport and without
\* changing vdd_mv, the calibration modifiers or the decoder state.
C10_ConfigErrorsRejectedFirst ==
    [][(ncalls' = ncalls + 1 /\ InvalidArguments(last_op')) =>
          /\ last_op'.err = "ValueError"
          /\ pc' = "idle"
          /\ io' = <<>>
          /\ ppk' = ppk
          /\ port' = port
          /\ rx' = rx]_vars

\* an out-of-range voltage was rejected on a connected session
C10_Witness ==
    /\ last_op = [op |-> "set_source_voltage", arg |-> <<5001>>, err |-> "ValueError"]
    /\ port.is_open
    /\ ppk.metadata.present

-----------------------------------------------------------------------------
(* Properties of the capture file *)

\* C8: load_ppk2(save_ppk2(r)) has sample_count = len(r.samples), the logic
\* bitmask of r at every position, range 0 on every sample and lost_samples
\* 0, whatever ranges and lost_samples r had.
C8_RoundTrip ==
    loaded.kind = "MeasurementResult" =>
        /\ loaded.sample_count = Len(result.samples)
        /\ Len(loaded.samples) = Len(result.samples)
        /\ \A i \in 1..Len(result.samples) :
              /\ loaded.samples[i].logic = result.samples[i].logic
              /\ loaded.samples[i].range = 0
        /\ loaded.lost_samples = 0

\* a result with a non-zero range and a non-zero loss count was reloaded
C8_Witness ==
    /\ loaded.kind = "MeasurementResult"
    /\ result.lost_samples = 2
    /\ Len(result.samples) = 2
    /\ result.samples[1].range = 3
    /\ result.samples[1].logic = 255
    /\ result.samples[2].logic = 85

\* C9: the overview of save_ppk2 is folded k times with factor 2^k, k the
\* least number of doublings with sample_count / 2^k <= 10000: no fold and
\* as many points as samples up to 10000 samples (none for no samples), at
\* least one fold and ceil(sample_count / 2^k) <= 10000 points above.
C9_OverviewFolding ==
    archive.exists =>
        LET n == Len(result.samples)
            mm == archive.minimap_raw
            k == mm.numberOfTimesToFold
            len == mm.data.length
            us == 1000000 \div archive.metadata_json.metadata.samplesPerSecond
        IN  /\ len = Len(mm.data.min)
            /\ len = Len(mm.data.max)
            /\ n = 0 => (len = 0 /\ k = 0)
            /\ n > 0 =>
                  /\ mm.lastElementFoldCount = 2 ^ k
                  /\ n <= 10000 * (2 ^ k)
                  /\ k > 0 => n > 10000 * (2 ^ (k - 1))
                  /\ len * (2 ^ k) >= n
                  /\ (len - 1) * (2 ^ k) < n
                  /\ \A b \in 1..len : mm.data.min[b].x = (b - 1) * (2 ^ k) * us
            /\ n <= 10000 => (k = 0 /\ len = n)
            /\ n > 10000 => (k >= 1 /\ len <= 10000)

\* a capture of 40001 samples was saved with three folds
C9_Witness ==
    /\ archive.exists
    /\ Len(result.samples) = 40001
    /\ archive.minimap_raw.numberOfTimesToFold = 3
    /\ archive.minimap_raw.data.length = 5001

-----------------------------------------------------------------------------
(* Properties of wait_for_digital, close and connect *)

\* bit `channel` of a digital bitmask is set
PinHigh(logic, channel) == ((logic \div (2 ^ channel)) % 2) = 1

\* positions of the frames (loss markers excluded) of a list returned by
\* feed() whose pin `channel` is at `level`
Hits(results, channel, level) ==
    {i \in 1..Len(results) : results[i] # LossMarker /\ PinHigh(results[i][4], channel) = level}

\* the bytes a polling step took from the transport
BytesRead == cap'.bytes - cap.bytes

\* C11: wait_for_digital(channel, level, timeout) returns True in the very
\* poll in which the decoder emits a frame whose bit `channel` equals `level`
\* (loss markers are skipped), keeps waiting after a poll that emitted no such
\* frame, and returns False only once the deadline has passed.
C11_WaitForDigital ==
    [][pc = "wait" =>
        LET channel == last_op.arg[1]
            level == last_op.arg[2]
            emitted == feed(ppk.parser, SubSeq(rx, 1, BytesRead)).results
            hit == BytesRead > 0 /\ Hits(emitted, channel, level) # {}
        IN  /\ hit => /\ pc' = "idle"
                      /\ ret' = [kind |-> "bool", value |-> TRUE]
                      /\ last_op'.err = "none"
            /\ (ret'.kind = "bool" /\ ret'.value) => hit
            /\ (BytesRead > 0 /\ ~hit) => (pc' = "wait" /\ ret' = NoRet)
            /\ (ret'.kind = "bool" /\ ~ret'.value) =>
                   (BytesRead = 0 /\ ~(now < loc.deadline) /\ pc' = "idle")]_vars

\* wait_for_digital(0, False) returned True after the decoder had emitted
\* a frame with the pin high and then one with it low
C11_Witness ==
    /\ WaitReturned
    /\ ret.value
    /\ last_op.arg[2] = FALSE
    /\ cap.frames >= 2

\* the four attributes of a SampleParser object
ObjectFields(p) == <<p.remainder, p.expected_counter, p.dataloss_counter, p.corrupted_buffer>>

\* C12: after reset() the parser is in the state of a newly constructed one,
\* and whatever it was fed before, what it returns and becomes on the bytes
\* fed since is what a new parser returns and becomes on them: the first
\* frame is emitted as decoded, with no loss marker, and its counter is
\* adopted as the expectation.
C12_ResetIsFresh ==
    nresets > 0 =>
        LET fresh == feed(NewParser, fed_bytes)
        IN  /\ ObjectFields(parser) = ObjectFields(fresh.p)
            /\ out = fresh.results
            /\ fed_bytes = <<>> => ObjectFields(parser) = ObjectFields(NewParser)
            /\ Len(fed_bytes) >= FRAME_SIZE =>
                   /\ out[1] # LossMarker
                   /\ out[1] = decode_frame(SubSeq(fed_bytes, 1, FRAME_SIZE))
            /\ Len(fed_bytes) \in FRAME_SIZE..(2 * FRAME_SIZE - 1) =>
                   /\ Len(out) = 1
                   /\ parser.expected_counter = NextCounter(out[1][3])

\* the parser was reset in the middle of a frame (its remainder was not
\* empty) and has emitted frames since
C12_Witness ==
    /\ nresets = 1
    /\ ~aligned
    /\ Len(out) >= 1

\* C13: the significant-data-loss error is logged by the loss report that
\* takes the cumulative loss total of the session from below 500 to 500 or
\* more, and by no other: never while the total stays below 500, never again
\* once it has been logged, so exactly once in a session that reaches 500;
\* the frame that triggered the report is emitted and decoding goes on.
C13_LossReportedOnce ==
    /\ [](nresets = 0 =>
            parser.errors_logged = IF parser.dataloss_counter >= DATALOSS_THRESHOLD THEN 1 ELSE 0)
    /\ [][LET logged == parser'.errors_logged - parser.errors_logged
          IN  /\ logged \in {0, 1}
              /\ logged = 1 <=> /\ parser.dataloss_counter < DATALOSS_THRESHOLD
                                /\ parser'.dataloss_counter >= DATALOSS_THRESHOLD
              /\ logged = 1 =>
                     /\ last_ret'[Len(last_ret')] = decode_frame(last_chunk')
                     /\ parser'.expected_counter = NextCounter(decode_frame(last_chunk')[3])
                     /\ parser'.corrupted_buffer = <<>>]_vars

\* a session logged the error once and had more loss reported afterwards
C13_Witness ==
    /\ nresets = 0
    /\ parser.errors_logged = 1
    /\ parser.dataloss_counter >= DATALOSS_THRESHOLD + 100

\* C14: while the session is measuring (after a start-stream command and
\* before the matching stop-stream command) no operation of the session
\* changes a calibration coefficient.
C14_ModifiersFixedWhileMeasuring ==
    [][(ppk.is_measuring /\ ppk'.is_measuring) => ppk'.modifiers = ppk.modifiers]_vars

\* the step is a call of close()
CloseStep == ncalls' = ncalls + 1 /\ last_op'.op = "close"

\* the commands of a traffic history whose opcode is `opcode`
Commands(traffic, opcode) == SelectSeq(traffic, LAMBDA c : c[1] = opcode)

C17_ClosedAfterClose ==
    [][CloseStep =>
        /\ last_op'.err = "none"
        /\ ~port'.is_open
        /\ ~ppk'.is_measuring
        /\ ppk.is_measuring => (average_stop = io'[1] /\ ~port'.streaming)]_vars

\* close() has returned from a session that was measuring and receiving frames
C17_Witness ==
    /\ last_op = [op |-> "close", arg |-> <<>>, err |-> "none"]
    /\ ~port.is_open
    /\ ~ppk.is_measuring
    /\ gen.n > 0

\* the commands written to the transport in a traffic history
Writes(traffic) == SelectSeq(traffic, LAMBDA c : c[1] > 0)

\* the last call was connect and it has returned
Connected ==
    /\ last_op = [op |-> "connect", arg |-> <<>>, err |-> "none"]
    /\ pc = "idle"

\* C18: during connect the first command written is stop-stream and the
\* second is request-metadata, and nothing else is written before the
\* metadata has been parsed; once it has, the third command is a
\* regulator-set carrying the metadata's VDD and vdd_mv equals that VDD.
C18_ConnectSequence ==
    last_op.op = "connect" =>
        LET w == Writes(io)
        IN  /\ Len(w) >= 2
            /\ w[1] = <<AVERAGE_STOP>>
            /\ w[2] = <<GET_METADATA>>
            /\ pc = "connect" => (Len(w) = 2 /\ ~ppk.metadata.present)
            /\ Connected =>
                   /\ ppk.metadata.present
                   /\ w[3][1] = REGULATOR_SET
                   /\ (w[3][2] * 256) + w[3][3] = ppk.metadata.vdd
                   /\ ppk.vdd_mv = ppk.metadata.vdd

\* connect has returned on metadata reporting a VDD of 4200 mV
C18_Witness ==
    /\ Connected
    /\ ppk.metadata.vdd = 4200
    /\ ppk.vdd_mv = 4200

\* a user gain, in thousandths, lies within 0.9-1.1
InBand(gain) == 900 <= gain /\ gain <= 1100

\* C19: after a successful connect every user gain lies within 0.9-1.1: a
\* gain the metadata reported outside the band is 1.0 in the modifiers and a
\* set-user-gain command with value 1.0 has been written for its range; a
\* gain reported inside the band is as reported and no command was written
\* for its range.
C19_GainsValidatedAtConnect ==
    Connected =>
        \A idx \in 0..4 :
            LET reported == ppk.metadata.ug[idx + 1]
                resets == SelectSeq(io, LAMBDA c : c[1] = SET_USER_GAINS /\ c[2] = idx)
            IN  /\ InBand(ppk.modifiers.ug[idx + 1])
                /\ InBand(reported) => (ppk.modifiers.ug[idx + 1] = reported /\ resets = <<>>)
                /\ ~InBand(reported) =>
                       /\ ppk.modifiers.ug[idx + 1] = 1000
                       /\ resets = <<set_user_gains(idx, 1000)>>

\* connect has returned on metadata with gains below, above and on the
\* edges of the band
C19_Witness ==
    /\ Connected
    /\ ppk.metadata.ug = <<1200, 900, 1100, 1000, 800>>
    /\ ppk.modifiers.ug = <<1000, 900, 1100, 1000, 1000>>

\* C20: connect adds each chunk it reads to the response text and goes on
\* reading until the text holds the sentinel END, then parses all of it; if
\* the window of 5 s after the request expires with no sentinel seen, it
\* raises TimeoutError with no metadata stored, the calibration coefficients
\* and vdd_mv as they were before connect, and no further command written.
C20_MetadataWindow ==
    /\ [](Connected => (ppk.metadata.present /\ ppk.metadata.vdd # None))
    /\ []((last_op.op = "connect" /\ last_op.err = "TimeoutError") =>
            /\ pc = "idle"
            /\ ~(now < SLEEP_DRAIN + METADATA_WINDOW)
            /\ ~ppk.metadata.present
            /\ Writes(io) = <<average_stop, get_metadata>>)
    /\ [][(pc' = "connect" \/ (pc = "connect" /\ last_op'.err # "none")) => ppk' = ppk]_vars
    /\ [][pc = "connect" =>
            /\ (pc' = "connect" /\ meta_rx' # meta_rx) =>
                   /\ loc'.text = append_text(loc.text, Head(meta_rx))
                   /\ ~loc'.text.present
            /\ (pc' = "idle" /\ last_op'.err = "none") =>
                   /\ ppk'.metadata = append_text(loc.text, Head(meta_rx))
                   /\ ppk'.metadata.present
            /\ (pc' = "idle" /\ last_op'.err # "none") =>
                   /\ last_op'.err = "TimeoutError"
                   /\ ~(now < loc.deadline)
                   /\ ~loc.text.present
            /\ (~(now < loc.deadline) /\ pc' = "connect") => UNCHANGED <<ppk, io, loc>>]_vars

\* connect has raised TimeoutError
C20_Witness ==
    /\ last_op = [op |-> "connect", arg |-> <<>>, err |-> "TimeoutError"]
    /\ pc = "idle"
    /\ port.is_open

-----------------------------------------------------------------------------
(* Properties of the conversion *)

\* the process() calls made since the last reset()
FilterCalls == 1..Len(spike_log)

\* the transition window is open when the countdown after a range change has not run out
WindowOpen(f) == f.after_spike > 0

\* C21: process() returns its input unchanged whenever the range equals the
\* range of the previous call and no transition window is open; when every
\* call since reset() used the same range, every call returned its input.
C21_StableRangePassthrough ==
    /\ \A n \in FilterCalls :
          (/\ n > 1
           /\ spike_log[n - 1].range = spike_log[n].range
           /\ ~WindowOpen(spike_log[n].before))
          => spike_log[n].returned = spike_log[n].value
    /\ (\A n \in FilterCalls : spike_log[n].range = spike_log[1].range)
          => \A n \in FilterCalls : spike_log[n].returned = spike_log[n].value

\* three calls on one range with changing values, the averages away from the last value
C21_Witness ==
    /\ Len(spike_log) = 3
    /\ \A n \in FilterCalls : spike_log[n].range = 3
    /\ spike_log[2].value # spike_log[3].value
    /\ spike_log[3].returned = spike_log[3].value
    /\ spike.f.rolling_avg # spike_log[3].value

\* C22: with the default modifiers (gs = gi = ug = 1, o = s = i = 0)
\* adc_to_microamps(0, range, modifiers, vdd) is 0 for every range 0..4 and
\* every vdd, and the call leaves the modifiers as they were.
C22_ZeroAdcIsZero ==
    [][(/\ last_op'.op = "adc_to_microamps"
        /\ spike.modifiers = DefaultModifiers
        /\ last_op'.arg[1] = 0)
       => (/\ ret'.value = 0
           /\ spike'.modifiers = DefaultModifiers)]_vars

\* zero was converted on the highest range at the highest voltage
C22_Witness ==
    /\ last_op.op = "adc_to_microamps"
    /\ last_op.arg = <<0, 4>>
    /\ spike.modifiers = DefaultModifiers
    /\ spike.vdd_mv = VDD_MAX
    /\ ret.value = 0

-----------------------------------------------------------------------------
(* Properties of the resynchronisation *)

\* a step in which feed() was called with the four bytes of one frame
FrameStep == last_chunk' # <<>> /\ parser' # parser

\* the frame fed in this step
StepFrame == decode_frame(last_chunk')

\* (counter - expected_counter + 64) mod 64 for the frame fed in this step
StepMissing == (StepFrame[3] - parser.expected_counter + 64) % 64

\* C23: a frame arriving while the resync buffer holds more than 4 frames,
\* with a counter other than expected_counter, yields exactly
\* (counter - expected_counter + 64) mod 64 loss markers followed by the
\* frame; the loss total grows by that number, the buffer is emptied without
\* its frames being emitted again, and expected_counter is counter + 1 mod 64.
C23_ConfirmedGap ==
    [][(/\ FrameStep
        /\ Len(parser.corrupted_buffer) > 4
        /\ StepFrame[3] # parser.expected_counter)
       => (/\ last_ret' = [i \in 1..StepMissing |-> LossMarker] \o <<StepFrame>>
           /\ parser'.dataloss_counter = parser.dataloss_counter + StepMissing
           /\ parser'.corrupted_buffer = <<>>
           /\ \A i \in 1..Len(parser.corrupted_buffer), j \in 1..Len(last_ret') :
                 last_ret'[j] # parser.corrupted_buffer[i]
           /\ parser'.expected_counter = (StepFrame[3] + 1) % 64)]_vars

\* a gap of 32 frames was confirmed by the 6th frame after it
C23_Witness ==
    /\ Len(last_ret) = 33
    /\ \A i \in 1..32 : last_ret[i] = LossMarker
    /\ last_ret[33] = FrameTuple(sent[Len(sent)])
    /\ parser.dataloss_counter = 32
    /\ parser.corrupted_buffer = <<>>

\* the number of times x occurs in the sequence s
Occurrences(s, x) == Cardinality({i \in 1..Len(s) : s[i] = x})

\* C24: when the resync buffer is non-empty and a frame arrives whose
\* counter equals expected_counter, the buffered frames are emitted in
\* arrival order before that frame and the buffer is emptied; each of them
\* having been emitted when it mismatched, it is then twice in the output.
C24_RealignReplaysBuffer ==
    [][(/\ FrameStep
        /\ parser.corrupted_buffer # <<>>
        /\ StepFrame[3] = parser.expected_counter)
       => (/\ last_ret' = parser.corrupted_buffer \o <<StepFrame>>
           /\ parser'.corrupted_buffer = <<>>
           /\ \A i \in 1..Len(parser.corrupted_buffer) :
                 /\ Occurrences(out, parser.corrupted_buffer[i]) = 1
                 /\ Occurrences(out', parser.corrupted_buffer[i]) = 2
           /\ Occurrences(out', StepFrame) = 1)]_vars

\* two buffered frames were replayed when the counter came back into sequence
C24_Witness ==
    /\ Len(last_ret) = 3
    /\ parser.corrupted_buffer = <<>>
    /\ parser.dataloss_counter = 0
    /\ Len(sent) >= 3
    /\ last_ret = <<FrameTuple(sent[Len(sent) - 2]), FrameTuple(sent[Len(sent) - 1]),
                    FrameTuple(sent[Len(sent)])>>
    /\ Occurrences(out, FrameTuple(sent[Len(sent) - 1])) = 2

C26_BufferAtMostFour == Len(parser.corrupted_buffer) <= 4

\* frame g of the stream follows a gap: its counter is not the successor of
\* the counter before it
GapAt(g) == sent[g].counter # (sent[g - 1].counter + 1) % 64

\* the number of frames dropped before frame g, 1..63
Dropped(g) == (sent[g].counter - sent[g - 1].counter - 1 + 64) % 64

\* the stream fed so far has its only gap before frame g and at least 6 frames from g on
SingleGap(g) ==
    /\ GapAt(g)
    /\ \A i \in 2..Len(sent) : i # g => ~GapAt(i)
    /\ Len(sent) >= g + 5

\* the loss markers, and the frames, of a list feed() returned
Markers(s) == SelectSeq(s, LAMBDA x : x = LossMarker)
Received(s) == SelectSeq(s, LAMBDA x : x # LossMarker)

\* C27: when k frames (1 <= k <= 63) were dropped at one point of an
\* otherwise gapless stream and 6 gapless frames after the gap have been
\* processed, the output holds exactly k loss markers, the loss total is k,
\* and every received frame is in the output exactly once, in arrival order.
C27_SingleGapAccounted ==
    \A g \in 2..Len(sent) :
        SingleGap(g) =>
            /\ Len(Markers(out)) = Dropped(g)
            /\ parser.dataloss_counter = Dropped(g)
            /\ Received(out) = [i \in 1..Len(sent) |-> FrameTuple(sent[i])]

\* 63 frames were dropped after the first frame and 6 frames followed
C27_Witness ==
    /\ Len(sent) = 7
    /\ SingleGap(2)
    /\ Dropped(2) = 63
    /\ Len(out) = 70
    /\ parser.dataloss_counter = 63

\* the filter as call n left it
FilterAfter(n) == IF n = Len(spike_log) THEN spike.f ELSE spike_log[n + 1].before

\* call n was made with another range than the call before it
RangeChanged(n) == n > 1 /\ spike_log[n].range # spike_log[n - 1].range

\* call m is the most recent range change at or before call n
LastChange(m, n) ==
    /\ m <= n
    /\ RangeChanged(m)
    /\ \A j \in (m + 1)..n : ~RangeChanged(j)

\* the average process() returns for a smoothed call on range k
SmoothedValue(f, k) == IF k = 4 THEN f.rolling_avg4 ELSE f.rolling_avg

\* C28: the call of a range change and the same-range calls after it return
\* a moving average (the slow one on range 4, the fast one otherwise) until 3
\* calls have been smoothed since the most recent range change; the next
\* same-range call returns the raw value.  A range change inside the window
\* restarts the countdown at 3, and each smoothed call counts it down by one.
C28_TransitionWindow ==
    \A n \in FilterCalls : \A m \in FilterCalls :
        LastChange(m, n) =>
            LET e == spike_log[n]
                budget == IF m = n THEN FILTER_SAMPLES ELSE e.before.after_spike
            IN  /\ n - m < 3 =>
                      /\ e.returned = SmoothedValue(FilterAfter(n), e.range)
                      /\ budget = FILTER_SAMPLES - (n - m)
                      /\ FilterAfter(n).after_spike = budget - 1
                /\ n - m >= 3 =>
                      /\ e.returned = e.value
                      /\ e.before.after_spike = 0
                      /\ FilterAfter(n).after_spike = 0

\* a range change inside the window of an earlier one: calls 2 to 5 were
\* smoothed, three of them since the second change, and call 6 came back raw
C28_Witness ==
    /\ Len(spike_log) = 6
    /\ RangeChanged(2)
    /\ LastChange(3, 6)
    /\ spike_log[3].range = 4
    /\ \A n \in 2..5 : spike_log[n].returned # spike_log[n].value
    /\ spike_log[6].returned = spike_log[6].value
    /\ spike_log[6].value # spike.f.rolling_avg4

\* C29: while a transition window is open on range 4, the call of the change
\* to range 4 and the call after it (consecutive_range_sample < 2) leave
\* both moving averages as they were before the call and return that slow
\* average; the third call keeps the update of both and returns the updated
\* slow average.
C29_RangeFourRollback ==
    \A n \in FilterCalls : \A m \in FilterCalls :
        (LastChange(m, n) /\ spike_log[n].range = 4 /\ n - m < 3) =>
            LET e == spike_log[n]
                after == FilterAfter(n)
            IN  /\ after.consecutive_range_sample = n - m
                /\ n - m < 2 =>
                      /\ after.rolling_avg = e.before.rolling_avg
                      /\ after.rolling_avg4 = e.before.rolling_avg4
                      /\ e.returned = e.before.rolling_avg4
                /\ n - m = 2 =>
                      /\ after.rolling_avg = Ema(ALPHA, e.value, e.before.rolling_avg)
                      /\ after.rolling_avg4 = Ema(ALPHA5, e.value, e.before.rolling_avg4)
                      /\ e.returned = after.rolling_avg4

\* range 4 was entered at call 2: calls 2 and 3 returned the slow average of
\* call 1, call 4 an updated one
C29_Witness ==
    /\ Len(spike_log) = 4
    /\ LastChange(2, 4)
    /\ spike_log[2].range = 4
    /\ spike_log[2].returned = spike_log[1].value
    /\ spike_log[3].returned = spike_log[1].value
    /\ spike_log[2].value # spike_log[1].value
    /\ spike_log[4].returned # spike_log[1].value
    /\ spike_log[4].returned # spike_log[4].value
    /\ spike.f.rolling_avg4 = spike_log[4].returned

-----------------------------------------------------------------------------
(* Properties of the source voltage *)

\* the voltage, in mV, carried by a regulator-set command
CommandVoltage(c) == c[2] * 256 + c[3]

WithinLimits(vdd_mv) == VDD_MIN <= vdd_mv /\ vdd_mv <= VDD_MAX

\* C30: every regulator-set command written to the transport carries a
\* voltage within 800-5000 mV, and after connect vdd_mv is within those
\* limits, whatever VDD the metadata reported.
C30_VoltageWithinLimits ==
    /\ \A n \in 1..Len(io) :
          io[n][1] = REGULATOR_SET => WithinLimits(CommandVoltage(io[n]))
    /\ Connected => WithinLimits(ppk.vdd_mv)

-----------------------------------------------------------------------------
(* Properties of failed calls *)

\* the step is a call of one of the four operations and its write raised ConnectionError
WriteFailed ==
    /\ ncalls' = ncalls + 1
    /\ last_op'.op \in {"set_source_voltage", "set_user_gain", "start_measuring", "stop_measuring"}
    /\ last_op'.err = "ConnectionError"

\* C31: when the write of a command fails because the transport is not
\* open, set_source_voltage leaves vdd_mv, set_user_gain leaves the
\* modifiers, and start_measuring and stop_measuring leave the measuring
\* flag as they were before the call.
C31_FailedWriteChangesNothing ==
    [][WriteFailed =>
        /\ ppk'.vdd_mv = ppk.vdd_mv
        /\ ppk'.modifiers = ppk.modifiers
        /\ ppk'.is_measuring = ppk.is_measuring]_vars

-----------------------------------------------------------------------------
(* Properties of a restarted decoder *)

\* the bytes a polling step read from the transport
PollBytes == SubSeq(rx, 1, Len(rx) - Len(rx'))

\* the tuple is the decoding of a frame the instrument has streamed
IsStreamFrame(t) ==
    \E n \in 1..gen.n, c \in 0..MAX_COUNTER :
        t = FrameTuple([adc |-> SourceAdc, range |-> SourceRange, counter |-> c, logic |-> n])

\* C32: when decoding is restarted while the instrument is already
\* streaming, every frame decoded afterwards consists of 4 bytes that form
\* one frame of the instrument's stream: a partial frame held in the
\* decoder's remainder at the restart does not shift the frame alignment.
C32_RestartKeepsAlignment ==
    [][(pc = "wait" /\ Len(rx') < Len(rx)) =>
        LET results == feed(ppk.parser, PollBytes).results
        IN  \A i \in 1..Len(results) :
                results[i] = LossMarker \/ IsStreamFrame(results[i])]_vars

-----------------------------------------------------------------------------
(* Properties of the decoder's output as a whole *)

\* the places of the output that hold a frame, and those that hold a frame
\* for the first time
Copies == {j \in 1..Len(out) : out[j] # LossMarker}
Firsts == {j \in Copies : \A l \in Copies : l < j => out[l] # out[j]}

\* C33: every complete frame fed to the decoder is in its output at least
\* once, and the first appearances of the frames are in arrival order,
\* whatever the counters: the decoder adds loss markers and repeated copies
\* but never drops or reorders a received frame.
C33_NoFrameDroppedOrReordered ==
    /\ Cardinality(Firsts) = Len(sent)
    /\ \A j \in Firsts :
          out[j] = FrameTuple(sent[Cardinality({l \in Firsts : l <= j})])

\* two frames were buffered and replayed: the output holds more copies than
\* frames were fed, and every frame fed is in it
C33_Witness ==
    /\ Len(sent) = MaxResyncFrames
    /\ Cardinality(Copies) >= Len(sent) + 2
    /\ Cardinality(Firsts) = Len(sent)
    /\ \A j \in 1..Len(out) : out[j] # LossMarker

-----------------------------------------------------------------------------
(* Properties of the spike filter as an object *)

\* the first n calls of spike_log made on a newly constructed filter
RECURSIVE FreshRun(_)
FreshRun(n) ==
    IF n = 0
    THEN [f |-> NewSpikeFilter, value |-> None]
    ELSE spike_process(FreshRun(n - 1).f, spike_log[n].value, spike_log[n].range)

\* C34: after reset() the two averages, prev_range, the transition countdown
\* and the consecutive-sample counter have their initial values, and every
\* sequence of process() calls returns what the same sequence returns on a
\* newly constructed filter: an earlier capture does not influence the next.
C34_ResetIsFresh ==
    spike.resets > 0 =>
        /\ spike_log = <<>> => spike.f = NewSpikeFilter
        /\ \A n \in FilterCalls : spike_log[n].returned = FreshRun(n).value
        /\ spike.f = FreshRun(Len(spike_log)).f

\* after a reset, a range change was smoothed with averages built from the
\* calls made since the reset only
C34_Witness ==
    /\ spike.resets = 1
    /\ Len(spike_log) = 3
    /\ RangeChanged(3)
    /\ spike_log[1].value # spike_log[2].value
    /\ spike_log[3].returned # spike_log[3].value
    /\ spike_log[3].returned = Ema(ALPHA, spike_log[3].value,
                                   Ema(ALPHA, spike_log[2].value, spike_log[1].value))

-----------------------------------------------------------------------------
(* Properties of wait_for_digital as a whole *)

\* the step begins a wait_for_digital call or is taken while one is running
WaitStep ==
    \/ ncalls' = ncalls + 1 /\ last_op'.op = "wait_for_digital"
    \/ pc = "wait"

\* C35: wait_for_digital only decodes: it writes no command to the
\* transport, produces no Sample, and leaves the spike filter, the
\* modifiers, vdd_mv and the measuring flag as they were; of the session's
\* state it advances the frame decoder only.
C35_WaitOnlyDecodes ==
    [][WaitStep =>
        /\ Writes(io') = <<>>
        /\ loc'.samples = <<>>
        /\ ret'.kind \in {"none", "bool"}
        /\ ppk'.spike_filter = ppk.spike_filter
        /\ ppk'.modifiers = ppk.modifiers
        /\ ppk'.vdd_mv = ppk.vdd_mv
        /\ ppk'.is_measuring = ppk.is_measuring
        /\ ppk' = [ppk EXCEPT !.parser = ppk'.parser]]_vars

\* wait_for_digital returned True after decoding frames: the decoder has
\* moved on and the spike filter is as start_measuring left it
C35_Witness ==
    /\ WaitReturned
    /\ ret.value
    /\ cap.frames >= 1
    /\ ppk.parser.expected_counter # None
    /\ ppk.spike_filter = NewSpikeFilter
    /\ ppk.is_measuring
    /\ Writes(io) = <<>>

-----------------------------------------------------------------------------
(* Properties of the overview's points *)

\* C36: for every overview bucket of a non-empty capture, the samples from
\* index j*f up to min((j+1)*f, n) with f the fold factor, the min point is
\* 1000 times the smallest current_ua of the bucket and the max point 1000
\* times the largest, so min <= max; both points carry the timestamp
\* j*f*(1,000,000 / samples_per_second) microseconds, timestamps strictly
\* increase with j, and both lists have the recorded length ceil(n / f).
C36_OverviewPoints ==
    (archive.exists /\ result.samples # <<>>) =>
        LET samples == result.samples
            n == Len(samples)
            mm == archive.minimap_raw
            f == mm.lastElementFoldCount
            len == mm.data.length
            us == 1000000 \div archive.metadata_json.metadata.samplesPerSecond
            first(b) == (b - 1) * f + 1
            last(b) == IF b * f < n THEN b * f ELSE n
        IN  /\ len = (n + f - 1) \div f
            /\ Len(mm.data.min) = len
            /\ Len(mm.data.max) = len
            /\ \A b \in 1..len :
                  LET lo == mm.data.min[b]
                      hi == mm.data.max[b]
                  IN  /\ \E j \in first(b)..last(b) : lo.y = 1000 * samples[j].current_ua
                      /\ \A j \in first(b)..last(b) : lo.y <= 1000 * samples[j].current_ua
                      /\ \E j \in first(b)..last(b) : hi.y = 1000 * samples[j].current_ua
                      /\ \A j \in first(b)..last(b) : hi.y >= 1000 * samples[j].current_ua
                      /\ lo.y <= hi.y
                      /\ lo.x = (b - 1) * f * us
                      /\ hi.x = lo.x
                      /\ b > 1 => mm.data.min[b - 1].x < lo.x

\* 40001 samples were folded by 8: the first bucket has its min below its
\* max, the last holds one sample
C36_Witness ==
    /\ archive.exists
    /\ Len(result.samples) = 40001
    /\ archive.minimap_raw.lastElementFoldCount = 8
    /\ archive.minimap_raw.data.min[1].y < archive.minimap_raw.data.max[1].y
    /\ archive.minimap_raw.data.min[1].y # 1000 * result.samples[1].current_ua
    /\ archive.minimap_raw.data.min[5001].y = archive.minimap_raw.data.max[5001].y

-----------------------------------------------------------------------------
(* events.py: EventMapper.  Timestamps are held in milliseconds, so
   timestamp_s * samples_per_second is timestamp_ms * samples_per_second / 1000 *)

MaxEvents == 3          \* events recorded in one mapper

EventNames == {"GPS", "LTE_TX", "UNKNOWN"}
EventTimestamps == {-1, 1, 3}
EventRates == {500, 1000}

\* the results events are applied to: no sample, one sample, four samples
EventLogics == {<<>>, <<5>>, <<4, 1, 255, 0>>}

EventSamples(logics) ==
    [i \in 1..Len(logics) |->
        [current_ua |-> 1000, range |-> 2, logic |-> logics[i], counter |-> (i - 1) % 64]]

\* int(x) for x = num / den with den > 0: rounds toward zero
int_trunc(num, den) == IF num >= 0 THEN num \div den ELSE -((-num) \div den)

\* mask | (1 << bit)
set_bit(mask, bit) == IF (mask \div (2 ^ bit)) % 2 = 1 THEN mask ELSE mask + 2 ^ bit

\* mask & ~(1 << bit)
clear_bit(mask, bit) == IF (mask \div (2 ^ bit)) % 2 = 1 THEN mask - 2 ^ bit ELSE mask

\* the events in the order they were recorded, not sorted
sorted_events_as_recorded(events) == events

\* sorted(self._events, key=lambda e: e.timestamp_s): stable
RECURSIVE sorted_events(_)
sorted_events(events) ==
    IF events = <<>> THEN <<>>
    ELSE LET rest == sorted_events(SubSeq(events, 1, Len(events) - 1))
             ev == events[Len(events)]
             k == Cardinality({i \in 1..Len(rest) : rest[i].timestamp_ms <= ev.timestamp_ms})
         IN  SubSeq(rest, 1, k) \o <<ev>> \o SubSeq(rest, k + 1, Len(rest))

\* the (sample_index, bit, high) list apply builds for n samples
event_transitions(events, n, samples_per_second) ==
    LET sorted == sorted_events(events)
        clamp(idx) == LET low == IF idx < n - 1 THEN idx ELSE n - 1
                      IN  IF low > 0 THEN low ELSE 0
    IN  [k \in 1..Len(sorted) |->
            [idx |-> clamp(int_trunc(sorted[k].timestamp_ms * samples_per_second, 1000)),
             bit |-> sorted[k].channel_bit,
             high |-> sorted[k].high]]

\* the while loop of apply at sample i (counted from 0): consumes the
\* transitions at or before i
RECURSIVE apply_transitions(_, _, _, _)
apply_transitions(transitions, i, current_mask, trans_idx) ==
    IF trans_idx < Len(transitions) /\ transitions[trans_idx + 1].idx <= i
    THEN LET t == transitions[trans_idx + 1]
         IN  apply_transitions(transitions, i,
                               IF t.high THEN set_bit(current_mask, t.bit)
                               ELSE clear_bit(current_mask, t.bit),
                               trans_idx + 1)
    ELSE [current_mask |-> current_mask, trans_idx |-> trans_idx]

\* the for loop of apply from sample i on: the logic values written
RECURSIVE apply_samples(_, _, _, _, _)
apply_samples(transitions, n, i, current_mask, trans_idx) ==
    IF i >= n THEN <<>>
    ELSE LET s == apply_transitions(transitions, i, current_mask, trans_idx)
         IN  <<s.current_mask>> \o apply_samples(transitions, n, i + 1, s.current_mask, s.trans_idx)

\* EventMapper.apply(result, samples_per_second): the samples afterwards
event_apply(events, samples, samples_per_second) ==
    IF events = <<>> THEN samples
    ELSE LET n == Len(samples)
             transitions == event_transitions(events, n, samples_per_second)
             current_mask == IF samples # <<>> THEN samples[1].logic ELSE 0
             logic == apply_samples(transitions, n, 0, current_mask, 0)
         IN  [i \in 1..n |-> [samples[i] EXCEPT !.logic = logic[i]]]

InitEvents ==
    /\ InitDeviceVars
    /\ InitParserVars
    /\ InitSpikeVars
    /\ InitEventVars
    /\ \E logics \in EventLogics : result = MakeResult(EventSamples(logics), 0)
    /\ archive = NoArchive
    /\ loaded = NoResult

\* mapper.event(name, high, timestamp_s); start and stop are event with
\* high True and False
Event(name, high, timestamp_ms) ==
    /\ Len(mapper.events) < MaxEvents
    /\ IF name \notin DOMAIN mapper.channel_map
       THEN /\ last_op' = [op |-> "event", arg |-> <<name>>, err |-> "ValueError"]
            /\ UNCHANGED mapper
       ELSE /\ mapper' = [mapper EXCEPT !.events = Append(@,
                             [channel_name |-> name, channel_bit |-> mapper.channel_map[name],
                              high |-> high, timestamp_ms |-> timestamp_ms])]
            /\ last_op' = [op |-> "event", arg |-> <<name>>, err |-> "none"]
    /\ UNCHANGED <<result, archive, loaded, original>>
    /\ UNCHANGED <<ppk, port, meta_rx, io, pc, loc, now, ret, cap, ncalls>>
    /\ UNCHANGED parserVars
    /\ UNCHANGED spikeVars

\* mapper.apply(result, samples_per_second)
Apply(samples_per_second) ==
    /\ result' = [result EXCEPT !.samples = event_apply(mapper.events, @, samples_per_second)]
    /\ original' = result.samples
    /\ last_op' = [op |-> "apply", arg |-> <<samples_per_second>>, err |-> "none"]
    /\ UNCHANGED <<mapper, archive, loaded>>
    /\ UNCHANGED <<ppk, port, meta_rx, io, pc, loc, now, ret, cap, ncalls>>
    /\ UNCHANGED parserVars
    /\ UNCHANGED spikeVars

NextEvents ==
    \/ \E name \in EventNames, high \in BOOLEAN, t \in EventTimestamps : Event(name, high, t)
    \/ \E r \in EventRates : Apply(r)

SpecEvents == InitEvents /\ [][NextEvents]_vars

-----------------------------------------------------------------------------
(* Properties of the event overlay *)

\* the sample index of a recorded event in a result of n samples
EventIndex(ev, n, samples_per_second) ==
    LET idx == int_trunc(ev.timestamp_ms * samples_per_second, 1000)
    IN  IF idx < 0 THEN 0 ELSE IF idx > n - 1 THEN n - 1 ELSE idx

BitOf(mask, b) == (mask \div (2 ^ b)) % 2 = 1

\* position k comes no later than position l in timestamp order; events of
\* equal timestamp keep the order they were recorded in
NoLater(events, k, l) ==
    \/ events[k].timestamp_ms < events[l].timestamp_ms
    \/ events[k].timestamp_ms = events[l].timestamp_ms /\ k <= l

\* C37: after apply on a non-empty result, with every event's sample index
\* int(timestamp * rate) clamped to [0, n-1] and the events taken in timestamp
\* order, bit b of samples[i].logic is the level of the last event of channel
\* b whose index is <= i, and bit b of the first sample's original logic when
\* there is no such event; with no recorded event apply changes no sample.
C37_LogicFollowsEvents ==
    (last_op.op = "apply" /\ original # <<>>) =>
        LET n == Len(original)
            events == mapper.events
            rate == last_op.arg[1]
        IN  /\ Len(result.samples) = n
            /\ events = <<>> => result.samples = original
            /\ events # <<>> =>
                  \A i \in 0..(n - 1), b \in 0..7 :
                      LET before == {k \in 1..Len(events) :
                                        /\ events[k].channel_bit = b
                                        /\ EventIndex(events[k], n, rate) <= i}
                          last == CHOOSE k \in before : \A l \in before : NoLater(events, l, k)
                      IN  BitOf(result.samples[i + 1].logic, b) =
                              IF before = {} THEN BitOf(original[1].logic, b)
                              ELSE events[last].high

\* three events were applied to four samples at the full rate: the first two
\* are of one channel, of opposite levels and recorded against the order of
\* their timestamps, one event lies before the start of the capture, and the
\* logic of the last sample differs from that of the first
C37_Witness ==
    /\ last_op.op = "apply"
    /\ last_op.arg[1] = 1000
    /\ Len(original) = 4
    /\ Len(mapper.events) = 3
    /\ mapper.events[1].channel_bit = mapper.events[2].channel_bit
    /\ mapper.events[1].high # mapper.events[2].high
    /\ mapper.events[1].timestamp_ms > mapper.events[2].timestamp_ms
    /\ mapper.events[2].timestamp_ms > 0
    /\ mapper.events[3].timestamp_ms < 0
    /\ result.samples[4].logic # result.samples[1].logic
    /\ result.samples[1].logic # original[1].logic

-----------------------------------------------------------------------------
(* Invariants of the spike filter *)

\* the filter's transition budget is in range and its two averages are
\* both unset or both set
FilterSane(f) ==
    /\ f.after_spike \in 0..(FILTER_SAMPLES - 1)
    /\ (f.rolling_avg = None) <=> (f.rolling_avg4 = None)

\* C38: for a SpikeFilter with default settings, after every process() call
\* of any call sequence the transition budget is between 0 and 2, both
\* averages are set (they are both unset only before the first call), and
\* process() never returns an unset value: a range-4 rollback never restores
\* an unset average.
C38_FilterInvariants ==
    /\ FilterSane(spike.f)
    /\ spike_log = <<>> => spike.f.rolling_avg = None
    /\ spike_log # <<>> => spike.f.rolling_avg # None /\ spike.f.rolling_avg4 # None
    /\ \A n \in FilterCalls :
          /\ FilterSane(spike_log[n].before)
          /\ (spike_log[n].before.rolling_avg = None) <=> (n = 1)
          /\ spike_log[n].returned # None

\* the second call after a reset came with range 4 after another range: the
\* averages were rolled back to those of the first call, which is what was
\* returned, and the transition budget stands at 2
C38_Witness ==
    /\ spike.resets > 0
    /\ Len(spike_log) = 2
    /\ spike_log[2].range = 4
    /\ spike_log[2].before.prev_range # 4
    /\ spike.f.after_spike = 2
    /\ spike.f.rolling_avg4 = spike_log[2].before.rolling_avg4
    /\ spike_log[2].returned = spike_log[1].value
    /\ spike_log[2].value # spike_log[1].value

-----------------------------------------------------------------------------
(* Properties of a failed open *)

\* PPK2Device.open() has raised out of _connect
OpenFailed == last_op.op = "connect" /\ last_op.err # "none" /\ pc = "idle"

\* C39: if connect fails after the transport has been opened (metadata
\* timeout or unusable metadata), the transport is closed again before the
\* error reaches the caller of PPK2Device.open(): a failed open never leaves
\* the port open.
C39_FailedOpenClosesPort == OpenFailed => ~port.is_open

====
